---- MODULE Spec2Model ----
(***************************************************************************)
(* Model of filesizelib's exact-precision value engine                     *)
(* (src/filesizelib/core.py, src/filesizelib/storage.py):                  *)
(*   - decimal.Decimal arithmetic under getcontext().prec = 50             *)
(*   - PerformanceManager (bounded decimal cache, FIFO eviction, counters) *)
(*   - ConversionEngine (per-instance conversion memo)                     *)
(*   - ArithmeticEngine.add / Storage.__add__                              *)
(***************************************************************************)
EXTENDS Integers, Sequences, FiniteSets, TLC

(***************************************************************************)
(* decimal.Decimal.  A Decimal is [neg, c, e]: sign, coefficient as a      *)
(* sequence of decimal digits (most significant first) and exponent; its   *)
(* value is (-1)^neg * c * 10^e.  Python compares Decimals numerically, so *)
(* the model keeps every Decimal in canonical form (no leading and no      *)
(* trailing zero digit, zero is [FALSE, <<>>, 0]); two Decimals are equal  *)
(* in Python iff their canonical forms are the same record.                *)
(***************************************************************************)

\* getcontext().prec = 50: every arithmetic result is rounded to this many
\* significant digits (ROUND_HALF_EVEN, the default context rounding).
prec == 50

Digit == 0..9

Zeros(n) == [i \in 1..n |-> 0]

\* drop the leading zero digits
StripLead(s) ==
  LET nz == {i \in 1..Len(s) : s[i] # 0}
  IN IF nz = {} THEN <<>>
     ELSE SubSeq(s, CHOOSE i \in nz : \A j \in nz : i <= j, Len(s))

\* number of trailing zero digits of a non-empty digit sequence that is not
\* all zeros
TrailZeros(s) ==
  LET nz == {i \in 1..Len(s) : s[i] # 0}
      last == CHOOSE i \in nz : \A j \in nz : j <= i
  IN Len(s) - last

\* canonical form of (-1)^neg * digits * 10^e
MkDec(neg, digits, e) ==
  LET s == StripLead(digits)
  IN IF s = <<>> THEN [neg |-> FALSE, c |-> <<>>, e |-> 0]
     ELSE LET z == TrailZeros(s)
          IN [neg |-> neg, c |-> SubSeq(s, 1, Len(s) - z), e |-> e + z]

DZero == MkDec(FALSE, <<>>, 0)

\* digits of a natural number
RECURSIVE NatDigits(_)
NatDigits(n) == IF n = 0 THEN <<>> ELSE Append(NatDigits(n \div 10), n % 10)

\* Decimal(int)
DecOfInt(n) == IF n < 0 THEN MkDec(TRUE, NatDigits(-n), 0) ELSE MkDec(FALSE, NatDigits(n), 0)

\* body, once x has been evaluated: TLC evaluates definitions and arguments on
\* demand, and a chain of pending carries or remainders is evaluated first so
\* that the evaluation stays shallow
Eager(x, body) == IF x = x THEN body ELSE body

\* Columns (most significant first, any integers) to digits: propagate the
\* carries from the right.  CarrySeg does the columns lo..hi given the carry
\* into column hi and yields <<digits, carry out of column lo>>; the range is
\* halved so that the evaluation stays shallow.  The total must be >= 0.
RECURSIVE CarrySeg(_, _, _, _)
CarrySeg(cols, lo, hi, cin) ==
  IF lo > hi THEN <<(<<>>), cin>>
  ELSE IF lo = hi THEN
    LET v == cols[lo] + cin IN <<(<<v % 10>>), v \div 10>>
  ELSE LET mid == (lo + hi) \div 2
           r == CarrySeg(cols, mid + 1, hi, cin)
           l == CarrySeg(cols, lo, mid, r[2])
       IN Eager(r, <<l[1] \o r[1], l[2]>>)

Carry(cols) ==
  LET r == CarrySeg(cols, 1, Len(cols), 0)
  IN StripLead(NatDigits(r[2]) \o r[1])

PadLeft(s, n) == Zeros(n - Len(s)) \o s

Max(a, b) == IF a >= b THEN a ELSE b
Min(a, b) == IF a <= b THEN a ELSE b

\* natural numbers as digit sequences without leading zeros
BigAdd(a, b) ==
  LET n == Max(Len(a), Len(b))
      pa == PadLeft(a, n)
      pb == PadLeft(b, n)
  IN Carry([i \in 1..n |-> pa[i] + pb[i]])

\* a - b for a >= b
BigSub(a, b) ==
  LET n == Max(Len(a), Len(b))
      pa == PadLeft(a, n)
      pb == PadLeft(b, n)
  IN Carry([i \in 1..n |-> pa[i] - pb[i]])

\* -1, 0, 1 as a < b, a = b, a > b
BigCmp(a, b) ==
  IF Len(a) # Len(b) THEN (IF Len(a) < Len(b) THEN -1 ELSE 1)
  ELSE LET D == {i \in 1..Len(a) : a[i] # b[i]}
       IN IF D = {} THEN 0
          ELSE LET m == CHOOSE i \in D : \A j \in D : i <= j
               IN IF a[m] < b[m] THEN -1 ELSE 1

\* sum of a[i] * b[k + 1 - i] over i in lo..hi (the digit products of column k)
RECURSIVE ColSum(_, _, _, _, _)
ColSum(a, b, k, lo, hi) ==
  IF lo > hi THEN 0
  ELSE IF lo = hi THEN a[lo] * b[k + 1 - lo]
  ELSE LET mid == (lo + hi) \div 2
       IN ColSum(a, b, k, lo, mid) + ColSum(a, b, k, mid + 1, hi)

BigMul(a, b) ==
  IF a = <<>> \/ b = <<>> THEN <<>>
  ELSE Carry([k \in 1..(Len(a) + Len(b) - 1) |->
                ColSum(a, b, k, Max(1, k + 1 - Len(b)), Min(Len(a), k))])

BigMulSmall(a, q) == Carry([i \in 1..Len(a) |-> a[i] * q])

\* Long division of a by b (b # 0).  DivSeg brings down the digits lo..hi of
\* a onto the remainder rem and yields <<quotient digits, remainder>>; mult is
\* the tuple of the multiples 1*b .. 9*b, and a quotient digit is the number
\* of multiples that fit.
RECURSIVE DivSeg(_, _, _, _, _)
DivSeg(a, mult, lo, hi, rem) ==
  IF lo > hi THEN <<(<<>>), rem>>
  ELSE IF lo = hi THEN
    LET cur == StripLead(Append(rem, a[lo]))
        q == Cardinality({d \in 1..9 : BigCmp(mult[d], cur) <= 0})
    IN <<(<<q>>), IF q = 0 THEN cur ELSE BigSub(cur, mult[q])>>
  ELSE LET mid == (lo + hi) \div 2
           l == DivSeg(a, mult, lo, mid, rem)
           r == DivSeg(a, mult, mid + 1, hi, l[2])
       IN Eager(l, <<l[1] \o r[1], r[2]>>)

\* <<quotient, remainder>> of a by b
BigDivMod(a, b) ==
  LET mult == <<b, BigMulSmall(b, 2), BigMulSmall(b, 3), BigMulSmall(b, 4),
                BigMulSmall(b, 5), BigMulSmall(b, 6), BigMulSmall(b, 7),
                BigMulSmall(b, 8), BigMulSmall(b, 9)>>
      r == DivSeg(a, mult, 1, Len(a), <<>>)
  IN <<StripLead(r[1]), r[2]>>

\* Round the non-negative number digits * 10^e (+ something in (0, 1) * 10^e
\* when sticky) to prec significant digits, ROUND_HALF_EVEN.
RoundDigitsIn(digits, e, sticky, context_prec) ==
  LET n == Len(digits)
  IN IF n <= context_prec THEN <<digits, e>>
     ELSE LET keep == SubSeq(digits, 1, context_prec)
              drop == SubSeq(digits, context_prec + 1, n)
              restNonZero == sticky \/ (\E i \in 2..Len(drop) : drop[i] # 0)
              up == \/ drop[1] > 5
                    \/ drop[1] = 5 /\ restNonZero
                    \/ drop[1] = 5 /\ ~restNonZero /\ keep[context_prec] % 2 = 1
          IN <<IF up THEN BigAdd(keep, <<1>>) ELSE keep, e + (n - context_prec)>>

RoundDigits(digits, e, sticky) == RoundDigitsIn(digits, e, sticky, prec)

\* the same rounding in a context of precision context_prec
DRoundIn(neg, digits, e, sticky, context_prec) ==
  LET r == RoundDigitsIn(StripLead(digits), e, sticky, context_prec)
  IN MkDec(neg, r[1], r[2])

DRound(neg, digits, e, sticky) ==
  LET r == RoundDigits(StripLead(digits), e, sticky)
  IN MkDec(neg, r[1], r[2])

\* coefficient of d scaled to exponent e <= d.e
Scaled(d, e) == IF d.c = <<>> THEN <<>> ELSE d.c \o Zeros(d.e - e)

\* the exact (unrounded) sum of x and y
ExactSum(x, y) ==
  IF x.c = <<>> THEN y
  ELSE IF y.c = <<>> THEN x
  ELSE LET e == Min(x.e, y.e)
           a == Scaled(x, e)
           b == Scaled(y, e)
       IN IF x.neg = y.neg THEN MkDec(x.neg, BigAdd(a, b), e)
          ELSE IF BigCmp(a, b) >= 0 THEN MkDec(x.neg, BigSub(a, b), e)
          ELSE MkDec(y.neg, BigSub(b, a), e)

\* the exact (unrounded) product of x and y
ExactProduct(x, y) == MkDec(x.neg # y.neg, BigMul(x.c, y.c), x.e + y.e)

\* x + y  (Decimal.__add__): the exact sum rounded to the context precision
DAdd(x, y) == LET s == ExactSum(x, y) IN DRound(s.neg, s.c, s.e, FALSE)

\* x * y  (Decimal.__mul__): the exact product rounded to the context precision
DMul(x, y) == LET p == ExactProduct(x, y) IN DRound(p.neg, p.c, p.e, FALSE)

\* x / y  (Decimal.__truediv__), y # 0: the quotient correctly rounded to the
\* context precision.  The dividend is scaled so that the integer quotient
\* has more than prec digits; a non-zero remainder is the sticky part.
DDiv(x, y) ==
  IF x.c = <<>> THEN DZero
  ELSE LET shift == Max(0, Len(y.c) - Len(x.c) + prec + 1)
           qr == BigDivMod(x.c \o Zeros(shift), y.c)
       IN DRound(x.neg # y.neg, qr[1], x.e - y.e - shift, qr[2] # <<>>)

\* x * y and x / y (y # 0) of finite operands in a context of precision
\* context_prec
DMulIn(x, y, context_prec) ==
  LET p == ExactProduct(x, y) IN DRoundIn(p.neg, p.c, p.e, FALSE, context_prec)

DDivIn(x, y, context_prec) ==
  IF x.c = <<>> THEN DZero
  ELSE LET shift == Max(0, Len(y.c) - Len(x.c) + context_prec + 1)
           qr == BigDivMod(x.c \o Zeros(shift), y.c)
       IN DRoundIn(x.neg # y.neg, qr[1], x.e - y.e - shift, qr[2] # <<>>, context_prec)

(***************************************************************************)
(* float(Decimal): the binary64 number nearest to a finite decimal >= 0,   *)
(* ties to even.  A float is [m, k], the number m * 2^k with               *)
(* 2^52 <= m < 2^53, or [m |-> <<>>, k |-> 0] for zero.  The values of the *)
(* model are far from the subnormal and the overflow range.                *)
(***************************************************************************)
RECURSIVE Pow2(_)
Pow2(n) ==
  IF n = 0 THEN <<1>>
  ELSE LET h == Pow2(n \div 2)
       IN Eager(h, LET square == BigMul(h, h)
                   IN Eager(square, IF n % 2 = 0 THEN square
                                    ELSE BigMulSmall(square, 2)))

\* <<quotient, remainder, denominator>> of num / (den * 2^k)
ScaledDivision(num, den, k) ==
  LET n == IF k < 0 THEN BigMul(num, Pow2(-k)) ELSE num
      d == IF k > 0 THEN BigMul(den, Pow2(k)) ELSE den
  IN Eager(n, Eager(d, LET qr == BigDivMod(n, d)
                       IN Eager(qr, <<qr[1], qr[2], d>>)))

\* the quotient q has 53 bits: 2^52 <= q < 2^53
HasFloatBits(q) == BigCmp(q, Pow2(52)) >= 0 /\ BigCmp(q, Pow2(53)) < 0

RoundedFloat(qrd, k) ==
  LET twice == BigMulSmall(qrd[2], 2)
      up == \/ BigCmp(twice, qrd[3]) > 0
            \/ BigCmp(twice, qrd[3]) = 0 /\ qrd[1][Len(qrd[1])] % 2 = 1
      m == IF up THEN BigAdd(qrd[1], <<1>>) ELSE qrd[1]
  IN Eager(m, IF m = Pow2(53) THEN [m |-> Pow2(52), k |-> k + 1]
              ELSE [m |-> m, k |-> k])

FloatOf(x) ==
  IF x.c = <<>> THEN [m |-> <<>>, k |-> 0]
  ELSE LET num == x.c \o Zeros(Max(x.e, 0))
           den == <<1>> \o Zeros(Max(-x.e, 0))
           estimate == ((Len(num) - Len(den)) * 3322) \div 1000 - 52
           found == CHOOSE r \in {<<ScaledDivision(num, den, k), k>> :
                                   k \in (estimate - 8)..(estimate + 8)} :
                      HasFloatBits(r[1][1])
       IN Eager(found, RoundedFloat(found[1], found[2]))

(***************************************************************************)
(* Decimal(value_str).  A string is a sequence of one-character strings.   *)
(* The model accepts [sign] digits [. digits] with at least one digit;     *)
(* any other text raises decimal.InvalidOperation.                         *)
(***************************************************************************)
DigitChars == {"0", "1", "2", "3", "4", "5", "6", "7", "8", "9"}

DigitOf(ch) ==
  CASE ch = "0" -> 0 [] ch = "1" -> 1 [] ch = "2" -> 2 [] ch = "3" -> 3
    [] ch = "4" -> 4 [] ch = "5" -> 5 [] ch = "6" -> 6 [] ch = "7" -> 7
    [] ch = "8" -> 8 [] ch = "9" -> 9

\* a raised exception, as the outcome of a call
Raise(name) == [exc |-> name]
IsExc(x) == "exc" \in DOMAIN x
InvalidOperation == Raise("InvalidOperation")
StopIteration == Raise("StopIteration")
NoResult == [none |-> TRUE]

DecimalOfStr(str) ==
  LET signed == str # <<>> /\ Head(str) \in {"+", "-"}
      body == IF signed THEN Tail(str) ELSE str
      dots == {i \in 1..Len(body) : body[i] = "."}
      digs == {i \in 1..Len(body) : body[i] \in DigitChars}
  IN IF digs = {} \/ Cardinality(dots) > 1 \/ digs \cup dots # 1..Len(body)
     THEN InvalidOperation
     ELSE LET dot == IF dots = {} THEN Len(body) + 1 ELSE CHOOSE i \in dots : TRUE
              int == SubSeq(body, 1, dot - 1)
              frac == SubSeq(body, dot + 1, Len(body))
              all == int \o frac
          IN MkDec(signed /\ Head(str) = "-",
                   [i \in 1..Len(all) |-> DigitOf(all[i])], -Len(frac))

(***************************************************************************)
(* The special values of Decimal, and the operators of Decimal on any      *)
(* operands.  The context traps InvalidOperation: an invalid operation     *)
(* raises; a quiet NaN operand gives NaN.                                   *)
(***************************************************************************)
DInf == [neg |-> FALSE, special |-> "Infinity"]
DNegInf == [neg |-> TRUE, special |-> "Infinity"]
DNaN == [neg |-> FALSE, special |-> "NaN"]

IsFinite(x) == "c" \in DOMAIN x
IsInf(x) == "special" \in DOMAIN x /\ x.special = "Infinity"
IsNaN(x) == "special" \in DOMAIN x /\ x.special = "NaN"
IsZero(x) == IsFinite(x) /\ x.c = <<>>

\* the infinity of sign neg
Infinity(neg) == IF neg THEN DNegInf ELSE DInf

\* x + y  (Decimal.__add__)
DecAdd(x, y) ==
  IF IsNaN(x) \/ IsNaN(y) THEN DNaN
  ELSE IF IsInf(x) THEN (IF IsInf(y) /\ y.neg # x.neg THEN InvalidOperation ELSE x)
  ELSE IF IsInf(y) THEN y
  ELSE DAdd(x, y)

\* x * y  (Decimal.__mul__)
DecMul(x, y) ==
  IF IsNaN(x) \/ IsNaN(y) THEN DNaN
  ELSE IF IsInf(x) \/ IsInf(y)
  THEN (IF IsZero(x) \/ IsZero(y) THEN InvalidOperation ELSE Infinity(x.neg # y.neg))
  ELSE DMul(x, y)

\* x / y  (Decimal.__truediv__), y # 0
DecDiv(x, y) ==
  IF IsNaN(x) \/ IsNaN(y) THEN DNaN
  ELSE IF IsInf(x) THEN (IF IsInf(y) THEN InvalidOperation ELSE Infinity(x.neg # y.neg))
  ELSE IF IsInf(y) THEN DZero
  ELSE DDiv(x, y)

\* <<quotient, remainder, exponent>> of the integer division of x by y,
\* finite and y # 0: |x| = quotient * |y| + remainder * 10^exponent
IntDivision(x, y) ==
  LET e == Min(x.e, y.e)
      qr == BigDivMod(Scaled(x, e), Scaled(y, e))
  IN <<qr[1], qr[2], e>>

\* x // y  (Decimal.__floordiv__), finite operands, y # 0: the integer part
\* of the quotient; DivisionImpossible, a subclass of InvalidOperation, when
\* it has more than prec digits
DFloorDiv(x, y) ==
  IF x.c = <<>> THEN DZero
  ELSE LET d == IntDivision(x, y)
       IN IF Len(d[1]) > prec THEN InvalidOperation
          ELSE MkDec(x.neg # y.neg, d[1], 0)

\* x % y  (Decimal.__mod__), finite operands, y # 0: the remainder of that
\* division, with the sign of x
DMod(x, y) ==
  IF x.c = <<>> THEN DZero
  ELSE LET d == IntDivision(x, y)
       IN IF Len(d[1]) > prec THEN InvalidOperation
          ELSE DRound(x.neg, d[2], d[3], FALSE)

\* x // y  (Decimal.__floordiv__), y # 0
DecFloorDiv(x, y) ==
  IF IsNaN(x) \/ IsNaN(y) THEN DNaN
  ELSE IF IsInf(x) THEN (IF IsInf(y) THEN InvalidOperation ELSE Infinity(x.neg # y.neg))
  ELSE IF IsInf(y) THEN DZero
  ELSE DFloorDiv(x, y)

\* x % y  (Decimal.__mod__), y # 0
DecMod(x, y) ==
  IF IsNaN(x) \/ IsNaN(y) THEN DNaN
  ELSE IF IsInf(x) THEN InvalidOperation
  ELSE IF IsInf(y) THEN DRound(x.neg, x.c, x.e, FALSE)
  ELSE DMod(x, y)

(***************************************************************************)
(* Python values given as arguments: an int, a float (by its repr, the     *)
(* text str() gives), a Decimal, a str, None.                               *)
(***************************************************************************)
PyInt(n) == [type |-> "int", value |-> DecOfInt(n)]
PyFloat(repr) == [type |-> "float", repr |-> repr]
PyDecimal(d) == [type |-> "Decimal", value |-> d]
PyStr(str) == [type |-> "str", value |-> str]
PyNone == [type |-> "NoneType"]

\* Decimal(str(value)) for a float value
DecimalOfFloat(repr) ==
  IF repr = <<"i", "n", "f">> THEN DInf
  ELSE IF repr = <<"-", "i", "n", "f">> THEN DNegInf
  ELSE IF repr = <<"n", "a", "n">> THEN DNaN
  ELSE DecimalOfStr(repr)

\* isinstance(value, (int, float, Decimal))
IsNumber(value) == value.type \in {"int", "float", "Decimal"}

\* the number as a Decimal: Decimal(str(value)) for a float, Decimal(value)
\* for an int, the value itself for a Decimal
AsDecimal(value) ==
  IF value.type = "float" THEN DecimalOfFloat(value.repr) ELSE value.value

\* the comparisons value < 0 and value <= 0 raise for a Decimal NaN (and are
\* False for a float nan)
CompareRaises(value) == value.type = "Decimal" /\ IsNaN(value.value)
IsNegative(value) == AsDecimal(value).neg
IsNonPositive(value) == LET d == AsDecimal(value) IN d.neg \/ IsZero(d)

(***************************************************************************)
(* PerformanceManager (core.py): the bounded decimal cache.                *)
(* A Python dict keeps its keys in insertion order, so _decimal_cache is a *)
(* sequence of [key, value] entries, oldest inserted first.                *)
(***************************************************************************)
VARIABLES
  max_cache_size,   \* PerformanceManager.max_cache_size
  decimal_cache,    \* PerformanceManager._decimal_cache
  stats,            \* PerformanceManager._stats
  pm_last,          \* history: the last completed PerformanceManager call
  inserted          \* history: the keys left by the last clear or optimize,
                    \* followed by the keys inserted since, in that order

pmVars == <<max_cache_size, decimal_cache, stats, pm_last, inserted>>

\* concurrent callers of get_cached_decimal (see below)
VARIABLES
  lock_owner,   \* the thread that holds _decimal_cache_lock, or NoThread
  pc,           \* per thread: the statement it is at
  t_value_str,    \* per thread: the argument of its call
  t_decimal_value, \* per thread: the local decimal_value
  lock_order,   \* history: the calls in the order they acquired the lock
  call_idx      \* history: per thread, the index of its call in lock_order

thVars == <<lock_owner, pc, t_value_str, t_decimal_value, lock_order, call_idx>>

\* one Storage / ConversionEngine per name in Engines (see below)
VARIABLES
  storage_value,     \* per engine: ConversionEngine.storage_value, or NoResult
  conversion_cache,  \* per engine: ConversionEngine._conversion_cache
  next_id,           \* the identity the next constructed StorageValue gets
  ce_last,           \* history: the last completed conversion call
  first_returned,    \* history, per engine: for each cache key, the value the
                     \* first convert_to returned since the last clear_cache
  tabulated          \* auxiliary: the products and quotients by unit multipliers
                     \* of the values that the value under test leads to,
                     \* evaluated once, when that value is constructed; it
                     \* never changes

ceVars == <<storage_value, conversion_cache, next_id, ce_last, first_returned, tabulated>>

\* one ArithmeticEngine (see below)
VARIABLES
  left_value,   \* ArithmeticEngine.left_value
  ae_arg,       \* the argument of the calls: an operand, a factor or a divisor
  ae_last       \* history: the last completed call

aeVars == <<left_value, ae_arg, ae_last>>

\* the state outside the PerformanceManager
\* calls of StringParser.parse, Storage.parse and of the constructors (see
\* below)
VARIABLES
  api_value,    \* the string or value argument of the calls
  api_unit,     \* the default_unit or unit argument of the calls
  api_last      \* history: the last completed parse call or construction

apiVars == <<api_value, api_unit, api_last>>

\* one object that a construction made and that every later operation
\* replaces by its result (see below)
VARIABLES
  current,      \* the StorageValue (of the Storage) made last, or NoResult
  n_ops,        \* the number of operations applied since the construction
  last_op       \* history: the constructor or operation that made current

seqVars == <<current, n_ops, last_op>>

\* threads that each own a Storage (see below)
VARIABLES
  own_input,    \* the value, unit and target unit every thread works with
  own_pc,       \* per thread: "idle", "started" or "created"
  own_prec,     \* per thread: the precision of the thread's decimal context
  own_storage,  \* per thread: the StorageValue of its Storage, or NoResult
  own_cache,    \* per thread: the memo of its Storage's ConversionEngine
  own_calls,    \* per thread: the number of convert_to calls it completed
  own_last      \* history: the last completed convert_to call

ownVars == <<own_input, own_pc, own_prec, own_storage, own_cache, own_calls, own_last>>

\* threads that read the conversion properties of one Storage (see below)
VARIABLES
  prop_storage,   \* the StorageValue of the Storage
  prop_memo,      \* the memo of the Storage's ConversionEngine
  conversion_properties,  \* Storage._conversion_properties
  prop_lock,      \* the owner of Storage._cache_lock, or "none"
  prop_next_id,   \* the identity the next Storage made gets
  prop_pc,        \* per thread: its position in _get_cached_conversion
  prop_unit,      \* per thread: the unit_name of its access
  prop_prec,      \* per thread: the precision of the thread's decimal context
  prop_accesses,  \* per thread: the number of accesses it completed
  converter_runs, \* history: per unit_name, how often converter_func ran
  first_property, \* history: per unit_name, the object the first access returned
  prop_last       \* history: the last completed access

propVars == <<prop_storage, prop_memo, conversion_properties, prop_lock, prop_next_id,
              prop_pc, prop_unit, prop_prec, prop_accesses, converter_runs,
              first_property, prop_last>>

\* two Storage values that are compared and hashed (see below)
VARIABLES
  cmp_left,     \* the left operand
  cmp_right,    \* the right operand
  cmp_last      \* history: the last comparison or hash and its result

cmpVars == <<cmp_left, cmp_right, cmp_last>>

\* threads that share one ConversionEngine (see below)
VARIABLES
  race_storage, \* ConversionEngine.storage_value
  race_cache,   \* ConversionEngine._conversion_cache
  race_lock,    \* the owner of ConversionEngine._cache_lock, or "none"
  race_pc,      \* per thread: its position in convert_to or clear_cache
  race_target,  \* per thread: the target_unit of its convert_to call
  race_prec,    \* per thread: the precision of the thread's decimal context
  race_result,  \* per thread: the local variable result of convert_to
  race_calls,   \* per thread: the number of calls it completed
  race_last     \* history: the last completed call

raceVars == <<race_storage, race_cache, race_lock, race_pc, race_target, race_prec,
              race_result, race_calls, race_last>>

\* the state of the concurrent uses and of the comparisons
restVars == <<ownVars, propVars, cmpVars, raceVars>>

engineVars == <<ceVars, aeVars, apiVars, seqVars, restVars>>

\* the largest capacity a PerformanceManager is constructed with
MaxCap == 2
\* the number of calls made on one PerformanceManager
MaxCalls == 5

\* the strings passed to get_cached_decimal
Literals == {<<"1">>, <<"2">>, <<"1", ".", "5">>, <<"0", "7">>, <<"a", "b", "c">>}

NoKey == <<>>

Keys(cache) == [i \in 1..Len(cache) |-> cache[i].key]
KeySet(cache) == {cache[i].key : i \in 1..Len(cache)}

\* key in dict
DictHas(cache, key) == key \in KeySet(cache)

\* dict[key]
DictGet(cache, key) == cache[CHOOSE i \in 1..Len(cache) : cache[i].key = key].value

\* dict[key] = value: a new key goes last, an existing key keeps its place
DictSet(cache, key, value) ==
  IF DictHas(cache, key)
  THEN [i \in 1..Len(cache) |->
          IF cache[i].key = key THEN [key |-> key, value |-> value] ELSE cache[i]]
  ELSE Append(cache, [key |-> key, value |-> value])

\* del dict[key]
DictDel(cache, key) == SelectSeq(cache, LAMBDA en : en.key # key)

\* the last n elements of a sequence
Suffix(seq, n) == SubSeq(seq, Len(seq) - n + 1, Len(seq))

ZeroStats ==
  [decimal_cache_hits |-> 0, decimal_cache_misses |-> 0,
   conversion_cache_hits |-> 0, conversion_cache_misses |-> 0]

\* (mutation of CacheHit: the entry read is moved to the end, as an LRU cache does)
CacheHitPromote(cache, st, value_str) ==
  [cache |-> DictSet(DictDel(cache, value_str), value_str, DictGet(cache, value_str)),
   stats |-> [st EXCEPT !.decimal_cache_hits = @ + 1],
   outcome |-> "hit",
   result |-> DictGet(cache, value_str)]

\* get_cached_decimal, the literal is cached: count the hit, return the entry
CacheHit(cache, st, value_str) ==
  [cache |-> cache,
   stats |-> [st EXCEPT !.decimal_cache_hits = @ + 1],
   outcome |-> "hit",
   result |-> DictGet(cache, value_str)]

\* (mutation of EvictIfFull: the bound is tested with > instead of >=)
EvictIfOverfull(cache, cap) ==
  IF Len(cache) > cap
  THEN IF cache = <<>> THEN [raised |-> TRUE, cache |-> cache]
       ELSE [raised |-> FALSE, cache |-> DictDel(cache, cache[1].key)]
  ELSE [raised |-> FALSE, cache |-> cache]

\* (mutation of EvictIfFull: the newest entry is evicted instead of the oldest)
EvictNewestIfFull(cache, cap) ==
  IF Len(cache) >= cap
  THEN IF cache = <<>> THEN [raised |-> TRUE, cache |-> cache]
       ELSE [raised |-> FALSE, cache |-> DictDel(cache, cache[Len(cache)].key)]
  ELSE [raised |-> FALSE, cache |-> cache]

\* "Simple cache eviction if cache is full": the cache after the eviction
\* block, or StopIteration when next(iter(...)) finds the cache empty
EvictIfFull(cache, cap) ==
  IF Len(cache) >= cap
  THEN IF cache = <<>> THEN [raised |-> TRUE, cache |-> cache]
       ELSE [raised |-> FALSE, cache |-> DictDel(cache, cache[1].key)]
  ELSE [raised |-> FALSE, cache |-> cache]

\* (mutation of CacheMiss: the miss is counted only once the literal is inserted)
CacheMissCountLate(cache, st, cap, value_str) ==
  LET st1 == [st EXCEPT !.decimal_cache_misses = @ + 1]
      decimal_value == DecimalOfStr(value_str)
      evicted == EvictIfFull(cache, cap)
  IN IF IsExc(decimal_value)
     THEN [cache |-> cache, stats |-> st, outcome |-> "raise", result |-> decimal_value]
     ELSE IF evicted.raised
     THEN [cache |-> cache, stats |-> st, outcome |-> "raise", result |-> StopIteration]
     ELSE [cache |-> DictSet(evicted.cache, value_str, decimal_value), stats |-> st1,
           outcome |-> "miss", result |-> decimal_value]

\* get_cached_decimal, the literal is not cached
CacheMiss(cache, st, cap, value_str) ==
  LET st1 == [st EXCEPT !.decimal_cache_misses = @ + 1]
      decimal_value == DecimalOfStr(value_str)
      evicted == EvictIfFull(cache, cap)
  IN IF IsExc(decimal_value)
     THEN [cache |-> cache, stats |-> st1, outcome |-> "raise", result |-> decimal_value]
     ELSE IF evicted.raised
     THEN [cache |-> cache, stats |-> st1, outcome |-> "raise", result |-> StopIteration]
     ELSE [cache |-> DictSet(evicted.cache, value_str, decimal_value), stats |-> st1,
           outcome |-> "miss", result |-> decimal_value]

\* the whole of get_cached_decimal, run under _decimal_cache_lock
GetCachedDecimal(cache, st, cap, value_str) ==
  IF DictHas(cache, value_str) THEN CacheHit(cache, st, value_str)
  ELSE CacheMiss(cache, st, cap, value_str)

\* items[-keep_count:]
LastItems(items, keep_count) ==
  IF keep_count = 0 THEN items
  ELSE SubSeq(items, Max(1, Len(items) - keep_count + 1), Len(items))

\* optimize_memory_usage: len > max_cache_size * 0.8, keep int(max_cache_size * 0.5)
OptimizeMemoryUsage(cache, cap) ==
  IF Len(cache) * 10 > cap * 8 THEN LastItems(cache, cap \div 2) ELSE cache

Called(op, arg, outcome, result) ==
  pm_last' = [seq |-> pm_last.seq + 1, op |-> op, arg |-> arg,
              outcome |-> outcome, result |-> result,
              size_before |-> Len(decimal_cache),
              oldest_before |-> IF decimal_cache = <<>> THEN NoKey ELSE decimal_cache[1].key,
              prev_op |-> pm_last.op, prev_outcome |-> pm_last.outcome,
              prev_arg |-> pm_last.arg]

NoCall ==
  [seq |-> 0, op |-> "init", arg |-> NoKey, outcome |-> "none", result |-> NoResult,
   size_before |-> 0, oldest_before |-> NoKey,
   prev_op |-> "init", prev_outcome |-> "none", prev_arg |-> NoKey]

\* PerformanceManager(max_cache_size)
PMInit ==
  /\ max_cache_size \in 0..MaxCap
  /\ decimal_cache = <<>>
  /\ stats = ZeroStats
  /\ pm_last = NoCall
  /\ inserted = <<>>

get_cached_decimal(arg) ==
  LET r == GetCachedDecimal(decimal_cache, stats, max_cache_size, arg)
  IN /\ pm_last.seq < MaxCalls
     /\ decimal_cache' = r.cache
     /\ stats' = r.stats
     /\ Called("get_cached_decimal", arg, r.outcome, r.result)
     /\ inserted' = IF r.outcome = "miss" THEN Append(inserted, arg) ELSE inserted
     /\ UNCHANGED <<max_cache_size, thVars, engineVars>>

clear_decimal_cache ==
  /\ pm_last.seq < MaxCalls
  /\ decimal_cache' = <<>>
  /\ Called("clear_decimal_cache", NoKey, "return", NoResult)
  /\ inserted' = <<>>
  /\ UNCHANGED <<max_cache_size, stats, thVars, engineVars>>

reset_stats ==
  /\ pm_last.seq < MaxCalls
  /\ stats' = ZeroStats
  /\ Called("reset_stats", NoKey, "return", NoResult)
  /\ UNCHANGED <<max_cache_size, decimal_cache, inserted, thVars, engineVars>>

optimize_memory_usage ==
  /\ pm_last.seq < MaxCalls
  /\ decimal_cache' = OptimizeMemoryUsage(decimal_cache, max_cache_size)
  /\ Called("optimize_memory_usage", NoKey, "return", NoResult)
  /\ inserted' = Keys(decimal_cache')
  /\ UNCHANGED <<max_cache_size, stats, thVars, engineVars>>

record_conversion_hit ==
  /\ pm_last.seq < MaxCalls
  /\ stats' = [stats EXCEPT !.conversion_cache_hits = @ + 1]
  /\ Called("record_conversion_hit", NoKey, "return", NoResult)
  /\ UNCHANGED <<max_cache_size, decimal_cache, inserted, thVars, engineVars>>

record_conversion_miss ==
  /\ pm_last.seq < MaxCalls
  /\ stats' = [stats EXCEPT !.conversion_cache_misses = @ + 1]
  /\ Called("record_conversion_miss", NoKey, "return", NoResult)
  /\ UNCHANGED <<max_cache_size, decimal_cache, inserted, thVars, engineVars>>

(***************************************************************************)
(* Concurrent get_cached_decimal calls on one PerformanceManager.  Each    *)
(* thread runs the statements of the method one at a time; the with-block  *)
(* holds _decimal_cache_lock (a threading.RLock) from entry to return or   *)
(* raise.                                                                  *)
(***************************************************************************)
Threads == {"t1", "t2"}
NoThread == "none"

\* the number of get_cached_decimal calls the threads make in all
MaxThreadCalls == 3

\* (mutation of LockAvailable: the method runs without taking the lock)
LockIgnored(owner, t) == TRUE

\* RLock.acquire by thread t succeeds when no other thread owns the lock
LockAvailable(owner, t) == owner = NoThread \/ owner = t

ThreadsInit ==
  /\ lock_owner = NoThread
  /\ pc = [t \in Threads |-> "idle"]
  /\ t_value_str = [t \in Threads |-> NoKey]
  /\ t_decimal_value = [t \in Threads |-> NoResult]
  /\ lock_order = <<>>
  /\ call_idx = [t \in Threads |-> 0]

\* leaving the with-block (return or raise) releases the lock
Finish(t, outcome, result) ==
  /\ lock_owner' = NoThread
  /\ pc' = [pc EXCEPT ![t] = "idle"]
  /\ lock_order' = [lock_order EXCEPT ![call_idx[t]].outcome = outcome,
                                       ![call_idx[t]].result = result]

\* with self._decimal_cache_lock:
t_acquire(t, arg) ==
  /\ pc[t] = "idle"
  /\ Len(lock_order) < MaxThreadCalls
  /\ LockAvailable(lock_owner, t)
  /\ lock_owner' = t
  /\ pc' = [pc EXCEPT ![t] = "check"]
  /\ t_value_str' = [t_value_str EXCEPT ![t] = arg]
  /\ lock_order' = Append(lock_order, [arg |-> arg, outcome |-> "running", result |-> NoResult])
  /\ call_idx' = [call_idx EXCEPT ![t] = Len(lock_order) + 1]
  /\ UNCHANGED <<pmVars, t_decimal_value, engineVars>>

\* if value_str in self._decimal_cache: count the hit and return; else count the miss
t_check(t) ==
  /\ pc[t] = "check"
  /\ IF DictHas(decimal_cache, t_value_str[t])
     THEN LET r == CacheHit(decimal_cache, stats, t_value_str[t])
          IN /\ stats' = r.stats
             /\ Finish(t, r.outcome, r.result)
     ELSE /\ stats' = [stats EXCEPT !.decimal_cache_misses = @ + 1]
          /\ pc' = [pc EXCEPT ![t] = "parse"]
          /\ UNCHANGED <<lock_owner, lock_order>>
  /\ UNCHANGED <<max_cache_size, decimal_cache, pm_last, inserted, t_value_str, t_decimal_value, call_idx, engineVars>>

\* decimal_value = Decimal(value_str)
t_parse(t) ==
  /\ pc[t] = "parse"
  /\ LET d == DecimalOfStr(t_value_str[t])
     IN IF IsExc(d)
        THEN /\ Finish(t, "raise", d)
             /\ UNCHANGED t_decimal_value
        ELSE /\ t_decimal_value' = [t_decimal_value EXCEPT ![t] = d]
             /\ pc' = [pc EXCEPT ![t] = "evict"]
             /\ UNCHANGED <<lock_owner, lock_order>>
  /\ UNCHANGED <<pmVars, t_value_str, call_idx, engineVars>>

\* if len(self._decimal_cache) >= self.max_cache_size: del the oldest key
t_evict(t) ==
  /\ pc[t] = "evict"
  /\ LET r == EvictIfFull(decimal_cache, max_cache_size)
     IN IF r.raised
        THEN /\ Finish(t, "raise", StopIteration)
             /\ UNCHANGED decimal_cache
        ELSE /\ decimal_cache' = r.cache
             /\ pc' = [pc EXCEPT ![t] = "insert"]
             /\ UNCHANGED <<lock_owner, lock_order>>
  /\ UNCHANGED <<max_cache_size, stats, pm_last, inserted, t_value_str, t_decimal_value, call_idx, engineVars>>

\* self._decimal_cache[value_str] = decimal_value; return decimal_value
t_insert(t) ==
  /\ pc[t] = "insert"
  /\ decimal_cache' = DictSet(decimal_cache, t_value_str[t], t_decimal_value[t])
  /\ Finish(t, "miss", t_decimal_value[t])
  /\ UNCHANGED <<max_cache_size, stats, pm_last, inserted, t_value_str, t_decimal_value, call_idx, engineVars>>

(***************************************************************************)
(* StorageUnit (storage_unit.py).  Each unit has an exact multiplier: the  *)
(* number of bytes in one of the unit.  core.py reads it as                *)
(* Decimal(str(unit.value)).  The model keeps five of the units: two       *)
(* binary multiples, one decimal multiple, the largest binary multiple and *)
(* the fractional one.                                                     *)
(***************************************************************************)
StorageUnit == {"BYTES", "KIB", "GB", "YIB", "BITS"}

\* str(unit.value)
UnitValueStr(unit) ==
  CASE unit = "BYTES" -> <<"1">>
    [] unit = "KIB" -> <<"1", "0", "2", "4">>
    [] unit = "GB" -> <<"1", "0", "0", "0", "0", "0", "0", "0", "0", "0">>
    [] unit = "YIB" -> <<"1", "2", "0", "8", "9", "2", "5", "8", "1", "9", "6", "1", "4",
                         "6", "2", "9", "1", "7", "4", "7", "0", "6", "1", "7", "6">>
    [] unit = "BITS" -> <<"0", ".", "1", "2", "5">>

\* Decimal(str(unit.value))
UnitValue(unit) == DecimalOfStr(UnitValueStr(unit))

\* the magnitudes the value under test is constructed with:
\* Decimal("2"), Decimal("1024"), Decimal("1.5") and 10^50 + 1
ConvMagnitudes ==
  {<<"2">>, <<"1", "0", "2", "4">>, <<"1", ".", "5">>,
   <<"1">> \o [i \in 1..(prec - 1) |-> "0"] \o <<"1">>}

ConvUnits == {"BYTES", "KIB", "YIB", "BITS"}

\* The values that occur when value (in unit) is the value under test: the
\* value itself and its conversions, as <<magnitude, unit>>.
DerivedValues(value, unit) ==
  {<<value, unit>>} \cup
  {<<DDiv(DMul(value, UnitValue(unit)), UnitValue(t)), t>> : t \in ConvUnits}

\* DMul and DDiv tabulated for these values
ProductTable(value, unit) ==
  [p \in DerivedValues(value, unit) |-> DMul(p[1], UnitValue(p[2]))]

QuotientTable(products) ==
  [k \in {products[p] : p \in DOMAIN products} \X ConvUnits |->
     DDiv(k[1], UnitValue(k[2]))]

NoTables == [product |-> <<>>, quotient |-> <<>>]

Tables(value, unit) ==
  LET products == ProductTable(value, unit)
  IN [product |-> products, quotient |-> QuotientTable(products)]

\* value * Decimal(str(unit.value))
TimesUnit(value, unit) ==
  IF <<value, unit>> \in DOMAIN tabulated.product THEN tabulated.product[<<value, unit>>]
  ELSE DecMul(value, UnitValue(unit))

\* value / Decimal(str(unit.value))
OverUnit(value, unit) ==
  IF <<value, unit>> \in DOMAIN tabulated.quotient THEN tabulated.quotient[<<value, unit>>]
  ELSE DecDiv(value, UnitValue(unit))

(***************************************************************************)
(* StorageValue (core.py).  A StorageValue object is [id, decimal_value,   *)
(* unit]; id is the object's identity, so two records are the same record  *)
(* iff they are the same Python object.                                    *)
(***************************************************************************)
ValueError == Raise("ValueError")

\* value < 0 for a Decimal value
DIsNeg(value) == value.neg

\* StorageValue(value, unit) for a Decimal value: the object with identity id
\* (a value whose computation raised raises; value < 0 raises for a NaN)
StorageValue(id, value, unit) ==
  IF IsExc(value) THEN value
  ELSE IF IsNaN(value) THEN InvalidOperation
  ELSE IF DIsNeg(value) THEN ValueError
  ELSE [id |-> id, decimal_value |-> value, unit |-> unit]

\* StorageValue.to_bytes
ToBytes(sv) == TimesUnit(sv.decimal_value, sv.unit)

\* StorageValue.to_unit
ToUnit(sv, target_unit) ==
  IF sv.unit = target_unit THEN sv.decimal_value
  ELSE OverUnit(ToBytes(sv), target_unit)

(***************************************************************************)
(* ConversionEngine (core.py).  _conversion_cache is a dict from the key   *)
(* "<source unit>_to_<target unit>" to the StorageValue computed for it.   *)
(***************************************************************************)
\* f"{self.storage_value.unit.name}_to_{target_unit.name}"
CacheKey(unit, target_unit) == <<unit, "_to_", target_unit>>

\* the conversion itself: divide the byte count, build the result, store it
ComputeConversion(sv, cache, target_unit, id) ==
  LET Stored(result) ==
        IF IsExc(result)
        THEN [result |-> result, cache |-> cache, computed |-> TRUE, next_id |-> id]
        ELSE [result |-> result,
              cache |-> DictSet(cache, CacheKey(sv.unit, target_unit), result),
              computed |-> TRUE, next_id |-> id + 1]
  IN CHOOSE stored \in
       {Stored(StorageValue(id, target_decimal_value, target_unit)) :
          target_decimal_value \in {OverUnit(bytes, target_unit) : bytes \in {ToBytes(sv)}}} :
       TRUE

\* (mutation of ConvertTo: the own unit is converted like any other)
ConvertToNoIdentity(sv, cache, target_unit, id) ==
  IF DictHas(cache, CacheKey(sv.unit, target_unit))
  THEN [result |-> DictGet(cache, CacheKey(sv.unit, target_unit)), cache |-> cache,
        computed |-> FALSE, next_id |-> id]
  ELSE ComputeConversion(sv, cache, target_unit, id)

\* (mutation of ConvertTo: the memo is written but never consulted)
ConvertToNoMemo(sv, cache, target_unit, id) ==
  IF sv.unit = target_unit
  THEN [result |-> sv, cache |-> cache, computed |-> FALSE, next_id |-> id]
  ELSE ComputeConversion(sv, cache, target_unit, id)

\* ConversionEngine.convert_to on an engine bound to sv, with memo cache;
\* id is the identity a newly built StorageValue gets
ConvertTo(sv, cache, target_unit, id) ==
  IF sv.unit = target_unit
  THEN [result |-> sv, cache |-> cache, computed |-> FALSE, next_id |-> id]
  ELSE IF DictHas(cache, CacheKey(sv.unit, target_unit))
  THEN [result |-> DictGet(cache, CacheKey(sv.unit, target_unit)), cache |-> cache,
        computed |-> FALSE, next_id |-> id]
  ELSE ComputeConversion(sv, cache, target_unit, id)

\* e1 is the engine of the value under test; e2 is an engine constructed on
\* a value that a conversion of e1 returned
Engines == {"e1", "e2"}

\* the number of conversion-engine calls made in all
MaxConvCalls == 3

Bound(e) == storage_value[e] # NoResult

NoConvCall ==
  [seq |-> 0, op |-> "init", engine |-> "e1", target |-> "BYTES", result |-> NoResult,
   cache_before |-> <<>>, computed |-> FALSE, repeat |-> FALSE]

ConvCalled(op, e, target_unit, result, computed) ==
  ce_last' = [seq |-> ce_last.seq + 1, op |-> op, engine |-> e, target |-> target_unit,
              result |-> result, cache_before |-> conversion_cache[e],
              computed |-> computed,
              repeat |-> /\ Bound(e)
                         /\ DictHas(first_returned[e],
                                    CacheKey(storage_value[e].unit, target_unit))]

\* the history of first results: a convert_to to another unit that is the
\* first for its key since the last clear_cache records what it returned
NoteReturned(e, target_unit, result) ==
  LET key == CacheKey(storage_value[e].unit, target_unit)
  IN first_returned' =
       IF \/ storage_value[e].unit = target_unit
          \/ DictHas(first_returned[e], key)
          \/ IsExc(result)
       THEN first_returned
       ELSE [first_returned EXCEPT ![e] = DictSet(@, key, result)]

\* no Storage and no ConversionEngine exists
NoEngines ==
  /\ storage_value = [e \in Engines |-> NoResult]
  /\ conversion_cache = [e \in Engines |-> <<>>]
  /\ next_id = 1
  /\ ce_last = NoConvCall
  /\ first_returned = [e \in Engines |-> <<>>]
  /\ tabulated = NoTables

\* ConversionEngine(StorageValue(Decimal(magnitude), unit))
CEInit ==
  \E magnitude \in ConvMagnitudes, unit \in ConvUnits :
    /\ storage_value = [e \in Engines |->
                          IF e = "e1" THEN StorageValue(1, DecimalOfStr(magnitude), unit)
                          ELSE NoResult]
    /\ conversion_cache = [e \in Engines |-> <<>>]
    /\ next_id = 2
    /\ ce_last = NoConvCall
    /\ first_returned = [e \in Engines |-> <<>>]
    /\ tabulated = Tables(DecimalOfStr(magnitude), unit)

\* ConversionEngine.convert_to(target_unit) on engine e
convert_to(e, target_unit) ==
  /\ Bound(e)
  /\ ce_last.seq < MaxConvCalls
  /\ \E r \in {ConvertTo(storage_value[e], conversion_cache[e], target_unit, next_id)} :
       /\ conversion_cache' = [conversion_cache EXCEPT ![e] = r.cache]
       /\ next_id' = r.next_id
       /\ ConvCalled("convert_to", e, target_unit, r.result, r.computed)
       /\ NoteReturned(e, target_unit, r.result)
  /\ UNCHANGED <<storage_value, tabulated, pmVars, thVars, aeVars, apiVars, seqVars, restVars>>

\* Storage.convert_to(target_unit) on the Storage that owns engine e: the
\* engine converts, then Storage(converted_value.decimal_value,
\* converted_value.unit) builds a new Storage around a new StorageValue
Storage_convert_to(e, target_unit) ==
  /\ Bound(e)
  /\ ce_last.seq < MaxConvCalls
  /\ \E r \in {ConvertTo(storage_value[e], conversion_cache[e], target_unit, next_id)} :
       \E made \in {IF IsExc(r.result) THEN r.result
                     ELSE StorageValue(r.next_id, r.result.decimal_value, r.result.unit)} :
         /\ conversion_cache' = [conversion_cache EXCEPT ![e] = r.cache]
         /\ next_id' = IF IsExc(made) THEN r.next_id ELSE r.next_id + 1
         /\ ConvCalled("Storage.convert_to", e, target_unit, made, r.computed)
         /\ NoteReturned(e, target_unit, r.result)
  /\ UNCHANGED <<storage_value, tabulated, pmVars, thVars, aeVars, apiVars, seqVars, restVars>>

\* StorageValue.to_unit(target_unit) on the value of engine e
to_unit(e, target_unit) ==
  /\ Bound(e)
  /\ ce_last.seq < MaxConvCalls
  /\ ConvCalled("to_unit", e, target_unit, ToUnit(storage_value[e], target_unit),
                storage_value[e].unit # target_unit)
  /\ UNCHANGED <<storage_value, conversion_cache, next_id, first_returned, tabulated,
                 pmVars, thVars, aeVars, apiVars, seqVars, restVars>>

\* ConversionEngine.clear_cache on engine e
clear_cache(e) ==
  /\ Bound(e)
  /\ ce_last.seq < MaxConvCalls
  /\ conversion_cache' = [conversion_cache EXCEPT ![e] = <<>>]
  /\ first_returned' = [first_returned EXCEPT ![e] = <<>>]
  /\ ConvCalled("clear_cache", e, storage_value[e].unit, NoResult, FALSE)
  /\ UNCHANGED <<storage_value, next_id, tabulated, pmVars, thVars, aeVars, apiVars, seqVars, restVars>>

\* ConversionEngine(value) for the value the last conversion of e1 returned:
\* the new engine e2 starts with an empty memo
NewConversionEngine ==
  /\ ce_last.seq < MaxConvCalls
  /\ ce_last.op \in {"convert_to", "Storage.convert_to"}
  /\ ce_last.engine = "e1"
  /\ ~IsExc(ce_last.result)
  /\ storage_value' = [storage_value EXCEPT !["e2"] = ce_last.result]
  /\ conversion_cache' = [conversion_cache EXCEPT !["e2"] = <<>>]
  /\ first_returned' = [first_returned EXCEPT !["e2"] = <<>>]
  /\ ConvCalled("ConversionEngine", "e2", ce_last.result.unit, NoResult, FALSE)
  /\ UNCHANGED <<next_id, tabulated, pmVars, thVars, aeVars, apiVars, seqVars, restVars>>

(***************************************************************************)
(* ArithmeticEngine.add (core.py) and Storage.__add__ (storage.py).        *)
(***************************************************************************)
TypeError == Raise("TypeError")
NotImplemented == [notimplemented |-> TRUE]

\* isinstance(x, StorageValue)
IsStorageValue(x) == DOMAIN x = {"id", "decimal_value", "unit"}

\* ArithmeticEngine.add on an engine bound to left, the result getting
\* identity id
Add(left, right_value, id) ==
  IF ~IsStorageValue(right_value) THEN TypeError
  ELSE IF left.unit = right_value.unit
  THEN StorageValue(id, DecAdd(left.decimal_value, right_value.decimal_value), left.unit)
  ELSE StorageValue(id, DecAdd(ToBytes(left), ToBytes(right_value)), "BYTES")

\* -x  (Decimal.__neg__)
DNeg(x) == IF IsInf(x) THEN Infinity(~x.neg) ELSE MkDec(~x.neg, x.c, x.e)

\* x - y  (Decimal.__sub__): the exact difference rounded to the context
\* precision
DSub(x, y) == DecAdd(x, DNeg(y))

\* x < y, compared exactly
DLess(x, y) == ExactSum(x, DNeg(y)).neg

\* (mutation of Subtract: a negative difference is not rejected)
SubtractUnchecked(left, right_value, id) ==
  IF ~IsStorageValue(right_value) THEN TypeError
  ELSE IF left.unit = right_value.unit
  THEN LET result_value == DSub(left.decimal_value, right_value.decimal_value)
       IN IF IsExc(result_value) THEN result_value
          ELSE [id |-> id, decimal_value |-> result_value, unit |-> left.unit]
  ELSE LET result_bytes == DSub(ToBytes(left), ToBytes(right_value))
       IN IF IsExc(result_bytes) THEN result_bytes
          ELSE [id |-> id, decimal_value |-> result_bytes, unit |-> "BYTES"]

\* ArithmeticEngine.subtract on an engine bound to left, the result getting
\* identity id
Subtract(left, right_value, id) ==
  IF ~IsStorageValue(right_value) THEN TypeError
  ELSE IF left.unit = right_value.unit
  THEN LET result_value == DSub(left.decimal_value, right_value.decimal_value)
       IN IF IsExc(result_value) THEN result_value
          ELSE IF DIsNeg(result_value) THEN ValueError
          ELSE StorageValue(id, result_value, left.unit)
  ELSE LET result_bytes == DSub(ToBytes(left), ToBytes(right_value))
       IN IF IsExc(result_bytes) THEN result_bytes
          ELSE IF DIsNeg(result_bytes) THEN ValueError
          ELSE StorageValue(id, result_bytes, "BYTES")

\* ArithmeticEngine.multiply on an engine bound to left
Multiply(left, factor, id) ==
  IF ~IsNumber(factor) THEN TypeError
  ELSE IF CompareRaises(factor) THEN InvalidOperation
  ELSE IF IsNegative(factor) THEN ValueError
  ELSE StorageValue(id, DecMul(left.decimal_value, AsDecimal(factor)), left.unit)

\* ArithmeticEngine.divide on an engine bound to left
Divide(left, divisor, id) ==
  IF ~IsNumber(divisor) THEN TypeError
  ELSE IF CompareRaises(divisor) THEN InvalidOperation
  ELSE IF IsNonPositive(divisor) THEN ValueError
  ELSE StorageValue(id, DecDiv(left.decimal_value, AsDecimal(divisor)), left.unit)

\* ArithmeticEngine.floor_divide on an engine bound to left
FloorDivide(left, divisor, id) ==
  IF ~IsNumber(divisor) THEN TypeError
  ELSE IF CompareRaises(divisor) THEN InvalidOperation
  ELSE IF IsNonPositive(divisor) THEN ValueError
  ELSE StorageValue(id, DecFloorDiv(left.decimal_value, AsDecimal(divisor)), left.unit)

\* ArithmeticEngine.modulo on an engine bound to left
Modulo(left, divisor, id) ==
  IF ~IsNumber(divisor) THEN TypeError
  ELSE IF CompareRaises(divisor) THEN InvalidOperation
  ELSE IF IsNonPositive(divisor) THEN ValueError
  ELSE StorageValue(id, DecMod(left.decimal_value, AsDecimal(divisor)), left.unit)

\* the factors and divisors given: ints, floats, Decimals (one of them
\* 10^-60), a str and None
Factors ==
  {PyInt(n) : n \in {-1, 0, 1, 2, 3}}
    \cup {PyFloat(repr) : repr \in {<<"0", ".", "5">>, <<"-", "0", ".", "0">>,
                                     <<"-", "1", ".", "5">>, <<"i", "n", "f">>,
                                     <<"n", "a", "n">>}}
    \cup {PyDecimal(d) : d \in {MkDec(FALSE, <<5>>, -1), MkDec(FALSE, <<1>>, -60),
                                 MkDec(TRUE, <<5>>, -1), DZero, DInf, DNegInf, DNaN}}
    \cup {PyStr(<<"2">>), PyNone}

\* the magnitudes of the operands: Decimal("1"), ..., 10^50 and
\* 1024 * 10^50 + 1
ArithMagnitudes ==
  {<<"1">>, <<"2">>, <<"3">>, <<"5", "1", "2">>, <<"1", ".", "1">>, <<"2", ".", "2">>,
   <<"1">> \o [i \in 1..prec |-> "0"],
   <<"1", "0", "2", "4">> \o [i \in 1..(prec - 1) |-> "0"] \o <<"1">>}

ArithUnits == {"BYTES", "KIB", "GB"}

\* the operands given to add: StorageValue objects and one object of
\* another type
Operands ==
  {StorageValue(2, DecimalOfStr(m), u) : m \in ArithMagnitudes, u \in ArithUnits}
    \cup {NoResult}

NoAddCall == [op |-> "init", right |-> NoResult, result |-> NoResult]

\* no ArithmeticEngine exists
NoArithmetic ==
  /\ left_value = NoResult
  /\ ae_arg = NoResult
  /\ ae_last = NoAddCall

\* ArithmeticEngine(StorageValue(Decimal(magnitude), unit)), and the
\* argument its methods are called with
AEInit ==
  /\ \E magnitude \in ArithMagnitudes, unit \in ArithUnits :
       left_value = StorageValue(1, DecimalOfStr(magnitude), unit)
  /\ ae_arg \in Operands \cup Factors
  /\ ae_last = NoAddCall

\* ArithmeticEngine.add(right_value)
add(right_value) ==
  /\ ae_last' = [op |-> "add", right |-> right_value,
                 result |-> Add(left_value, right_value, 3)]
  /\ UNCHANGED <<left_value, ae_arg, pmVars, thVars, ceVars, apiVars, seqVars, restVars>>

\* Storage.__add__(other), other being a Storage around right_value or an
\* object of another type: the engine adds, then
\* Storage(result_value.decimal_value, result_value.unit) builds a new
\* Storage around a new StorageValue
Storage__add__(right_value) ==
  /\ ae_last' =
       [op |-> "Storage.__add__", right |-> right_value,
        result |-> IF ~IsStorageValue(right_value) THEN NotImplemented
                   ELSE LET result_value == Add(left_value, right_value, 3)
                        IN IF IsExc(result_value) THEN result_value
                           ELSE StorageValue(4, result_value.decimal_value,
                                             result_value.unit)]
  /\ UNCHANGED <<left_value, ae_arg, pmVars, thVars, ceVars, apiVars, seqVars, restVars>>

\* ArithmeticEngine.subtract(right_value)
subtract(right_value) ==
  /\ ae_last' = [op |-> "subtract", right |-> right_value,
                 result |-> Subtract(left_value, right_value, 3)]
  /\ UNCHANGED <<left_value, ae_arg, pmVars, thVars, ceVars, apiVars, seqVars, restVars>>

\* Storage.__sub__(other): as __add__, with the engine's subtract
Storage__sub__(right_value) ==
  /\ ae_last' =
       [op |-> "Storage.__sub__", right |-> right_value,
        result |-> IF ~IsStorageValue(right_value) THEN NotImplemented
                   ELSE LET result_value == Subtract(left_value, right_value, 3)
                        IN IF IsExc(result_value) THEN result_value
                           ELSE StorageValue(4, result_value.decimal_value,
                                             result_value.unit)]
  /\ UNCHANGED <<left_value, ae_arg, pmVars, thVars, ceVars, apiVars, seqVars, restVars>>

\* ArithmeticEngine.multiply(factor)
multiply(factor) ==
  /\ ae_last' = [op |-> "multiply", right |-> factor,
                 result |-> Multiply(left_value, factor, 3)]
  /\ UNCHANGED <<left_value, ae_arg, pmVars, thVars, ceVars, apiVars, seqVars, restVars>>

\* ArithmeticEngine.divide(divisor)
divide(divisor) ==
  /\ ae_last' = [op |-> "divide", right |-> divisor,
                 result |-> Divide(left_value, divisor, 3)]
  /\ UNCHANGED <<left_value, ae_arg, pmVars, thVars, ceVars, apiVars, seqVars, restVars>>

\* ArithmeticEngine.floor_divide(divisor)
floor_divide(divisor) ==
  /\ ae_last' = [op |-> "floor_divide", right |-> divisor,
                 result |-> FloorDivide(left_value, divisor, 3)]
  /\ UNCHANGED <<left_value, ae_arg, pmVars, thVars, ceVars, apiVars, seqVars, restVars>>

\* ArithmeticEngine.modulo(divisor)
modulo(divisor) ==
  /\ ae_last' = [op |-> "modulo", right |-> divisor,
                 result |-> Modulo(left_value, divisor, 3)]
  /\ UNCHANGED <<left_value, ae_arg, pmVars, thVars, ceVars, apiVars, seqVars, restVars>>

\* Storage(result_value.decimal_value, result_value.unit) around the result
\* of an engine call, when it returned
StorageOfResult(result_value, id) ==
  IF IsExc(result_value) THEN result_value
  ELSE StorageValue(id, result_value.decimal_value, result_value.unit)

\* Storage.__mul__(factor): int and float factors only
Storage__mul__(factor) ==
  /\ ae_last' =
       [op |-> "Storage.__mul__", right |-> factor,
        result |-> IF factor.type \notin {"int", "float"} THEN NotImplemented
                   ELSE IF IsNegative(factor) THEN ValueError
                   ELSE StorageOfResult(Multiply(left_value, factor, 3), 4)]
  /\ UNCHANGED <<left_value, ae_arg, pmVars, thVars, ceVars, apiVars, seqVars, restVars>>

\* Storage.__rmul__(factor)
Storage__rmul__(factor) ==
  /\ ae_last' =
       [op |-> "Storage.__rmul__", right |-> factor,
        result |-> StorageOfResult(Multiply(left_value, factor, 3), 4)]
  /\ UNCHANGED <<left_value, ae_arg, pmVars, thVars, ceVars, apiVars, seqVars, restVars>>

(***************************************************************************)
(* StringParser.parse (core.py) and Storage.parse (storage.py).            *)
(* The alias table of StorageUnit is outside the sources; the model has    *)
(* lowercase aliases of three units.                                       *)
(***************************************************************************)
Whitespace == {" ", "\n"}
Letters == {"a", "b", "c", "d", "e", "f", "g", "h", "i", "j", "k", "l", "m", "n",
            "o", "p", "q", "r", "s", "t", "u", "v", "w", "x", "y", "z"}

\* str.lower() of one character
LowerChar(ch) ==
  CASE ch = "A" -> "a" [] ch = "B" -> "b" [] ch = "C" -> "c" [] ch = "D" -> "d"
    [] ch = "E" -> "e" [] ch = "F" -> "f" [] ch = "G" -> "g" [] ch = "H" -> "h"
    [] ch = "I" -> "i" [] ch = "J" -> "j" [] ch = "K" -> "k" [] ch = "L" -> "l"
    [] ch = "M" -> "m" [] ch = "N" -> "n" [] ch = "O" -> "o" [] ch = "P" -> "p"
    [] ch = "Q" -> "q" [] ch = "R" -> "r" [] ch = "S" -> "s" [] ch = "T" -> "t"
    [] ch = "U" -> "u" [] ch = "V" -> "v" [] ch = "W" -> "w" [] ch = "X" -> "x"
    [] ch = "Y" -> "y" [] ch = "Z" -> "z" [] OTHER -> ch

\* str.lower()
Lower(str) == [i \in 1..Len(str) |-> LowerChar(str[i])]

\* str.strip()
Strip(str) ==
  LET solid == {i \in 1..Len(str) : str[i] \notin Whitespace}
  IN IF solid = {} THEN <<>>
     ELSE SubSeq(str, CHOOSE i \in solid : \A j \in solid : i <= j,
                 CHOOSE i \in solid : \A j \in solid : j <= i)

\* str.replace(',', '.')
ReplaceComma(str) == [i \in 1..Len(str) |-> IF str[i] = "," THEN "." ELSE str[i]]

\* the length of the longest prefix of str made of characters of set
PrefixLen(str, set) ==
  LET other == {i \in 1..Len(str) : str[i] \notin set}
  IN IF other = {} THEN Len(str) ELSE (CHOOSE i \in other : \A j \in other : i <= j) - 1

\* value_str matches [0-9]*\.?[0-9]+
IsNumeral(value_str) ==
  /\ value_str # <<>>
  /\ \A i \in 1..Len(value_str) : value_str[i] \in DigitChars \cup {"."}
  /\ value_str[Len(value_str)] \in DigitChars
  /\ Cardinality({i \in 1..Len(value_str) : value_str[i] = "."}) <= 1

NoMatch == [matched |-> FALSE]

\* a pattern that accepts a sign before the number
MatchSigned(normalized) ==
  LET signed == normalized # <<>> /\ Head(normalized) \in {"+", "-"}
      body == IF signed THEN Tail(normalized) ELSE normalized
      n == PrefixLen(body, DigitChars \cup {"."})
      rest == SubSeq(body, n + 1, Len(body))
      w == PrefixLen(rest, Whitespace)
      unit_str == SubSeq(rest, w + 1, Len(rest))
  IN IF IsNumeral(SubSeq(body, 1, n)) /\ \A i \in 1..Len(unit_str) : unit_str[i] \in Letters
     THEN [matched |-> TRUE,
           value_str |-> SubSeq(normalized, 1, Len(normalized) - Len(rest)),
           unit_str |-> unit_str]
     ELSE NoMatch

\* self._pattern.match(normalized) for ^([0-9]*\.?[0-9]+)\s*([a-z]*)$ :
\* the groups, or NoMatch
Match(normalized) ==
  LET n == PrefixLen(normalized, DigitChars \cup {"."})
      rest == SubSeq(normalized, n + 1, Len(normalized))
      w == PrefixLen(rest, Whitespace)
      unit_str == SubSeq(rest, w + 1, Len(rest))
  IN IF IsNumeral(SubSeq(normalized, 1, n)) /\ \A i \in 1..Len(unit_str) : unit_str[i] \in Letters
     THEN [matched |-> TRUE, value_str |-> SubSeq(normalized, 1, n), unit_str |-> unit_str]
     ELSE NoMatch

\* StorageUnit.get_unit_aliases()
UnitAliases ==
  (<<"b">> :> "BYTES") @@ (<<"k", "i", "b">> :> "KIB") @@ (<<"g", "b">> :> "GB")

\* the ValueError messages of the parser
EmptyInput == [exc |-> "ValueError", msg |-> "Input string cannot be empty"]
InvalidFormat == [exc |-> "ValueError", msg |-> "Invalid format"]

\* the argument standing for no default_unit
None == "None"

\* a parser that rejects a unit token that is no alias
ParseKnownUnits(string, default_unit) ==
  IF string.type # "str" THEN TypeError
  ELSE IF Strip(string.value) = <<>> THEN EmptyInput
  ELSE LET match == Match(ReplaceComma(Lower(Strip(string.value))))
       IN IF ~match.matched THEN InvalidFormat
          ELSE IF match.unit_str # <<>> /\ match.unit_str \notin DOMAIN UnitAliases
          THEN InvalidFormat
          ELSE [value |-> DecimalOfStr(match.value_str),
                unit |-> IF match.unit_str \in DOMAIN UnitAliases
                         THEN UnitAliases[match.unit_str]
                         ELSE IF default_unit = None THEN "BYTES"
                         ELSE default_unit]

\* StringParser.parse(string, default_unit): [value, unit] or an exception
Parse(string, default_unit) ==
  IF string.type # "str" THEN TypeError
  ELSE IF Strip(string.value) = <<>> THEN EmptyInput
  ELSE LET match == Match(ReplaceComma(Lower(Strip(string.value))))
       IN IF ~match.matched THEN InvalidFormat
          ELSE LET value == DecimalOfStr(match.value_str)
                   unit_str == Lower(match.unit_str)
               IN IF IsExc(value) THEN value
                  ELSE [value |-> value,
                        unit |-> IF unit_str \in DOMAIN UnitAliases THEN UnitAliases[unit_str]
                                 ELSE IF default_unit = None THEN "BYTES"
                                 ELSE default_unit]

(***************************************************************************)
(* The constructors: StorageValue.__init__ (core.py), Storage.__init__ and *)
(* Storage._validate_input (storage.py).  A unit argument is a member of   *)
(* StorageUnit, StorageUnit.AUTO, None, or a str such as "invalid_unit".   *)
(* A Storage is represented by its _storage_value.                         *)
(***************************************************************************)
AUTO == "AUTO"

\* isinstance(unit, StorageUnit)
IsStorageUnit(unit) == unit \in StorageUnit \cup {AUTO}

\* StorageValue(value, unit) for any arguments.  value < 0 comes first: it
\* raises TypeError for a str or None (so that the str branch below it is
\* never reached) and InvalidOperation for a Decimal NaN.
NewStorageValue(id, value, unit) ==
  IF ~IsStorageUnit(unit) THEN TypeError
  ELSE IF ~IsNumber(value) THEN TypeError
  ELSE IF CompareRaises(value) THEN InvalidOperation
  ELSE IF IsNegative(value) THEN ValueError
  ELSE IF value.type = "float" /\ ~IsFinite(AsDecimal(value)) THEN ValueError
  ELSE [id |-> id, decimal_value |-> AsDecimal(value), unit |-> unit]

\* Storage._validate_input for a value that is not a str:
\* [decimal_value, unit] or an exception
ValidateNumber(value, unit) ==
  IF ~IsNumber(value) THEN TypeError
  ELSE IF unit # AUTO /\ ~IsStorageUnit(unit) THEN TypeError
  ELSE IF CompareRaises(value) THEN InvalidOperation
  ELSE IF IsNegative(value) THEN ValueError
  ELSE IF value.type = "float" /\ ~IsFinite(AsDecimal(value)) THEN ValueError
  ELSE [decimal_value |-> AsDecimal(value),
        unit |-> IF unit = AUTO THEN "BYTES" ELSE unit]

\* Storage(value, unit) for a value that is not a str: _validate_input,
\* then _initialize_components builds the StorageValue
StorageOfNumber(id, value, unit) ==
  LET valid == ValidateNumber(value, unit)
  IN IF IsExc(valid) THEN valid
     ELSE NewStorageValue(id, PyDecimal(valid.decimal_value), valid.unit)

\* (mutation of StorageParse: the exceptions of the parser and of the
\* constructor are not caught)
StorageParseUncaught(id, string, default_unit) ==
  IF string.type # "str" THEN TypeError
  ELSE IF Strip(string.value) = <<>> THEN EmptyInput
  ELSE LET parsed == Parse(string, IF default_unit = None THEN "BYTES" ELSE default_unit)
       IN IF IsExc(parsed) THEN parsed
          ELSE StorageOfNumber(id, PyDecimal(parsed.value), parsed.unit)

\* Storage.parse(string, default_unit): every exception of the parser and
\* of the constructor is raised again as ValueError("Invalid format ...")
StorageParse(id, string, default_unit) ==
  IF string.type # "str" THEN TypeError
  ELSE IF Strip(string.value) = <<>> THEN EmptyInput
  ELSE LET parsed == Parse(string, IF default_unit = None THEN "BYTES" ELSE default_unit)
       IN IF IsExc(parsed) THEN InvalidFormat
          ELSE LET made == StorageOfNumber(id, PyDecimal(parsed.value), parsed.unit)
               IN IF IsExc(made) THEN InvalidFormat ELSE made

\* Storage(value, unit): a str value is parsed, with the unit as default
\* unit unless it is AUTO
Storage(id, value, unit) ==
  IF value.type = "str"
  THEN LET parsed == StorageParse(id + 1, value, IF unit # AUTO THEN unit ELSE None)
       IN IF IsExc(parsed) THEN parsed
          ELSE NewStorageValue(id, PyDecimal(parsed.decimal_value), parsed.unit)
  ELSE StorageOfNumber(id, value, unit)

\* the longest text built from ParseAlphabet
MaxLen == 3

ParseAlphabet == {"1", ",", ".", " ", "g", "G", "b", "-"}

\* the texts given to the parser: the texts of the examples, and every text
\* of at most MaxLen characters of ParseAlphabet
Texts ==
  {<<"5", "0", "0">>, <<"1", ",", "0", "2", "4", " ", "K", "i", "B">>,
   <<"a", "b", "c">>, <<"-", "1", " ", "M", "B">>, <<"1", ".", "5", " ", "M", "B">>,
   <<" ", "7", "k", "i", "b", "\n">>, <<"1", " ", "x", "y", "z">>,
   <<"1", ";", " ", "r", "m", " ", "-", "r", "f", " ", "/">>}
    \cup UNION {[1..n -> ParseAlphabet] : n \in 0..MaxLen}

\* the values given to the parser and to the constructors
InputValues ==
  {PyStr(str) : str \in {<<"1", ".", "5">>, <<"5">>, <<"5", " ", "g", "b">>,
                          <<"a", "b", "c">>, <<>>, <<"-", "1">>}}
    \cup {PyInt(n) : n \in {-1, 0, 5}}
    \cup {PyFloat(repr) : repr \in {<<"1", ".", "5">>, <<"-", "0", ".", "5">>,
                                     <<"i", "n", "f">>, <<"n", "a", "n">>}}
    \cup {PyDecimal(d) : d \in {MkDec(FALSE, <<2, 5>>, -1), DecOfInt(-1), DZero,
                                 MkDec(FALSE, <<1>> \o Zeros(prec + 9) \o <<1>>, 0),
                                 DInf, DNegInf, DNaN}}
    \cup {PyNone}

\* the unit arguments given
InputUnits == {"BYTES", "KIB", "GB", AUTO, None, "invalid_unit"}

NoApiCall == [op |-> "init", value |-> NoResult, unit |-> None, result |-> NoResult]

\* nothing parsed or constructed
NoApi ==
  /\ api_value = NoResult
  /\ api_unit = None
  /\ api_last = NoApiCall

\* the arguments of the parse calls and of the constructions
ApiInit ==
  /\ api_value \in {PyStr(str) : str \in Texts} \cup InputValues
  /\ api_unit \in InputUnits
  /\ api_last = NoApiCall

\* StringParser().parse(string, default_unit)
parse(string, default_unit) ==
  /\ api_last' = [op |-> "parse", value |-> string, unit |-> default_unit,
                  result |-> Parse(string, default_unit)]
  /\ UNCHANGED <<api_value, api_unit, pmVars, thVars, ceVars, aeVars, seqVars, restVars>>

\* Storage.parse(string, default_unit)
Storage_parse(string, default_unit) ==
  /\ api_last' = [op |-> "Storage.parse", value |-> string, unit |-> default_unit,
                  result |-> StorageParse(1, string, default_unit)]
  /\ UNCHANGED <<api_value, api_unit, pmVars, thVars, ceVars, aeVars, seqVars, restVars>>

\* StorageValue(value, unit)
StorageValue__init__(value, unit) ==
  /\ api_last' = [op |-> "StorageValue", value |-> value, unit |-> unit,
                  result |-> NewStorageValue(1, value, unit)]
  /\ UNCHANGED <<api_value, api_unit, pmVars, thVars, ceVars, aeVars, seqVars, restVars>>

\* Storage(value, unit)
Storage__init__(value, unit) ==
  /\ api_last' = [op |-> "Storage", value |-> value, unit |-> unit,
                  result |-> Storage(1, value, unit)]
  /\ UNCHANGED <<api_value, api_unit, pmVars, thVars, ceVars, aeVars, seqVars, restVars>>

(***************************************************************************)
(* Sequences of operations.  One object is constructed; each operation     *)
(* that returns makes a new object from the current one, which takes its   *)
(* place.  An operation that raises, or that returns NotImplemented or a   *)
(* float, makes no object.  Identities play no part here: every object     *)
(* gets identity 1.                                                        *)
(***************************************************************************)
ZeroDivisionError == Raise("ZeroDivisionError")

\* Storage.__add__(other) and Storage.__sub__(other)
StorageAdd(left, other) ==
  IF ~IsStorageValue(other) THEN NotImplemented
  ELSE StorageOfResult(Add(left, other, 1), 1)

StorageSub(left, other) ==
  IF ~IsStorageValue(other) THEN NotImplemented
  ELSE StorageOfResult(Subtract(left, other, 1), 1)

\* Storage.__mul__(factor) and Storage.__rmul__(factor)
StorageMul(left, factor) ==
  IF factor.type \notin {"int", "float"} THEN NotImplemented
  ELSE IF IsNegative(factor) THEN ValueError
  ELSE StorageOfResult(Multiply(left, factor, 1), 1)

StorageRmul(left, factor) == StorageOfResult(Multiply(left, factor, 1), 1)

\* Storage(result_decimal, unit) for the Decimal a Storage operator computed
StorageOfDecimal(result_decimal, unit) ==
  IF IsExc(result_decimal) THEN result_decimal
  ELSE StorageOfNumber(1, PyDecimal(result_decimal), unit)

\* Storage.__truediv__(divisor) for a number (a Storage divisor gives a
\* float, no object)
StorageTruediv(left, divisor) ==
  IF divisor.type \notin {"int", "float"} THEN NotImplemented
  ELSE IF IsZero(AsDecimal(divisor)) THEN ZeroDivisionError
  ELSE LET result_value == Divide(left, divisor, 1)
       IN IF IsExc(result_value) THEN result_value
          ELSE StorageOfDecimal(result_value.decimal_value, result_value.unit)

\* Storage.__floordiv__(divisor)
StorageFloordiv(left, divisor) ==
  IF divisor.type \notin {"int", "float"} THEN NotImplemented
  ELSE IF IsZero(AsDecimal(divisor)) THEN ZeroDivisionError
  ELSE StorageOfDecimal(DecFloorDiv(left.decimal_value, AsDecimal(divisor)), left.unit)

\* Storage.__mod__(divisor)
StorageMod(left, divisor) ==
  IF divisor.type \notin {"int", "float"} THEN NotImplemented
  ELSE IF IsZero(AsDecimal(divisor)) THEN ZeroDivisionError
  ELSE StorageOfDecimal(DecMod(left.decimal_value, AsDecimal(divisor)), left.unit)

\* Storage.convert_to(target_unit) on a Storage whose engine has an empty
\* memo
StorageConvertTo(left, target_unit) ==
  LET converted_value == ConvertTo(left, <<>>, target_unit, 1).result
  IN IF IsExc(converted_value) THEN converted_value
     ELSE StorageOfDecimal(converted_value.decimal_value, converted_value.unit)

\* Storage.__truediv__(divisor), __floordiv__(divisor) and __mod__(divisor)
\* on the Storage around left_value
Storage__truediv__(divisor) ==
  /\ ae_last' = [op |-> "Storage.__truediv__", right |-> divisor,
                 result |-> StorageTruediv(left_value, divisor)]
  /\ UNCHANGED <<left_value, ae_arg, pmVars, thVars, ceVars, apiVars, seqVars, restVars>>

Storage__floordiv__(divisor) ==
  /\ ae_last' = [op |-> "Storage.__floordiv__", right |-> divisor,
                 result |-> StorageFloordiv(left_value, divisor)]
  /\ UNCHANGED <<left_value, ae_arg, pmVars, thVars, ceVars, apiVars, seqVars, restVars>>

Storage__mod__(divisor) ==
  /\ ae_last' = [op |-> "Storage.__mod__", right |-> divisor,
                 result |-> StorageMod(left_value, divisor)]
  /\ UNCHANGED <<left_value, ae_arg, pmVars, thVars, ceVars, apiVars, seqVars, restVars>>

\* the number of operations applied to the constructed object
MaxOps == 2

\* the callers: the engines of core.py or the Storage methods and operators
Callers == {"engine", "Storage"}

Constructors == {"StorageValue", "Storage", "Storage.parse"}

\* 3, -1, Decimal("1.5"), Decimal("Infinity"), float nan, "5 gb", "-1 MB"
SeqValues ==
  {PyInt(3), PyInt(-1),
   PyDecimal(MkDec(FALSE, <<1, 5>>, -1)), PyDecimal(DInf), PyFloat(<<"n", "a", "n">>),
   PyStr(<<"5", " ", "g", "b">>), PyStr(<<"-", "1", " ", "M", "B">>)}

SeqUnits == {"BYTES", "KIB", AUTO, None, "invalid_unit"}

\* 2 KIB, 2048 BYTES, and an object that is no StorageValue
SeqOperands ==
  {StorageValue(1, MkDec(FALSE, <<2>>, 0), "KIB"),
   StorageValue(1, MkDec(FALSE, <<2, 0, 4, 8>>, 0), "BYTES"), NoResult}

\* -2, 0, 2, 0.5, float inf, float nan, Decimal("0.5")
SeqFactors ==
  {PyInt(-2), PyInt(0), PyInt(2),
   PyFloat(<<"0", ".", "5">>), PyFloat(<<"i", "n", "f">>), PyFloat(<<"n", "a", "n">>),
   PyDecimal(MkDec(FALSE, <<5>>, -1))}

SeqTargets == {"BYTES", "KIB"}

NoSequence ==
  /\ current = NoResult
  /\ n_ops = 0
  /\ last_op = "none"

\* the multiplier of AUTO is outside the sources: an operation that needs
\* it is left out
HasMultiplier(unit) == unit \in StorageUnit

\* the object made replaces the current one; a call that makes none
\* changes nothing
Made(op, result) ==
  IF IsStorageValue(result)
  THEN /\ current' = result
       /\ n_ops' = IF current = NoResult THEN 0 ELSE n_ops + 1
       /\ last_op' = op
       /\ UNCHANGED <<pmVars, thVars, ceVars, aeVars, apiVars, restVars>>
  ELSE UNCHANGED <<pmVars, thVars, engineVars>>

\* StorageValue(value, unit), Storage(value, unit) or
\* Storage.parse(value, unit)
construct(constructor, value, unit) ==
  /\ current = NoResult
  /\ \E result \in {CASE constructor = "StorageValue" -> NewStorageValue(1, value, unit)
            [] constructor = "Storage" -> Storage(1, value, unit)
            [] constructor = "Storage.parse" -> StorageParse(1, value, unit)} :
       Made(constructor, result)

Applicable == current # NoResult /\ n_ops < MaxOps

\* the two operands can be brought to bytes
Commensurable(other) ==
  IsStorageValue(other) =>
    current.unit = other.unit \/ (HasMultiplier(current.unit) /\ HasMultiplier(other.unit))

\* ArithmeticEngine.add(other) or Storage.__add__(other)
then_add(caller, other) ==
  /\ Applicable
  /\ Commensurable(other)
  /\ \E result \in {IF caller = "engine" THEN Add(current, other, 1)
                 ELSE StorageAdd(current, other)} :
       Made("add", result)

\* ArithmeticEngine.subtract(other) or Storage.__sub__(other)
then_subtract(caller, other) ==
  /\ Applicable
  /\ Commensurable(other)
  /\ \E result \in {IF caller = "engine" THEN Subtract(current, other, 1)
                      ELSE StorageSub(current, other)} :
       Made("subtract", result)

\* ArithmeticEngine.multiply(factor), Storage.__mul__(factor) or
\* Storage.__rmul__(factor)
then_multiply(caller, factor) ==
  /\ Applicable
  /\ \E result \in {CASE caller = "engine" -> Multiply(current, factor, 1)
                        [] caller = "Storage" -> StorageMul(current, factor)
                        [] caller = "Storage.__rmul__" -> StorageRmul(current, factor)} :
       Made("multiply", result)

\* ArithmeticEngine.divide(divisor) or Storage.__truediv__(divisor)
then_divide(caller, divisor) ==
  /\ Applicable
  /\ \E result \in {IF caller = "engine" THEN Divide(current, divisor, 1)
                    ELSE StorageTruediv(current, divisor)} :
       Made("divide", result)

\* ArithmeticEngine.floor_divide(divisor) or Storage.__floordiv__(divisor)
then_floor_divide(caller, divisor) ==
  /\ Applicable
  /\ \E result \in {IF caller = "engine" THEN FloorDivide(current, divisor, 1)
                          ELSE StorageFloordiv(current, divisor)} :
       Made("floor_divide", result)

\* ArithmeticEngine.modulo(divisor) or Storage.__mod__(divisor)
then_modulo(caller, divisor) ==
  /\ Applicable
  /\ \E result \in {IF caller = "engine" THEN Modulo(current, divisor, 1)
                    ELSE StorageMod(current, divisor)} :
       Made("modulo", result)

\* ConversionEngine.convert_to(target_unit) or Storage.convert_to(target_unit)
then_convert_to(caller, target_unit) ==
  /\ Applicable
  /\ HasMultiplier(current.unit)
  /\ \E result \in {IF caller = "engine"
                        THEN ConvertTo(current, <<>>, target_unit, 1).result
                        ELSE StorageConvertTo(current, target_unit)} :
       Made("convert_to", result)

(***************************************************************************)
(* Threads that each own a Storage.  The arithmetic context of the decimal *)
(* module belongs to the thread: getcontext().prec = 50 at import sets the *)
(* precision of the importing thread only.  A thread started later has a   *)
(* context of the default precision, or, where threads inherit the context *)
(* of the thread that starts them, of precision 50.  A call of one thread  *)
(* reads and writes only that thread's Storage and context, so each call   *)
(* is one step.                                                            *)
(***************************************************************************)
DefaultPrec == 28

OwnThreads == {"w1", "w2"}

\* the number of convert_to calls of each thread
MaxOwnCalls == 2

\* StorageValue.to_bytes, then the division of ConversionEngine.convert_to,
\* in a context of precision context_prec
ConvertedIn(sv, target_unit, context_prec) ==
  CHOOSE target_decimal_value \in
    {DDivIn(bytes, UnitValue(target_unit), context_prec) :
       bytes \in {DMulIn(sv.decimal_value, UnitValue(sv.unit), context_prec)}} : TRUE

\* ConversionEngine.convert_to in a context of precision context_prec:
\* [result, cache]
ConvertToIn(sv, cache, target_unit, context_prec) ==
  IF sv.unit = target_unit THEN [result |-> sv, cache |-> cache]
  ELSE IF DictHas(cache, CacheKey(sv.unit, target_unit))
  THEN [result |-> DictGet(cache, CacheKey(sv.unit, target_unit)), cache |-> cache]
  ELSE CHOOSE stored \in
         {[result |-> result,
           cache |-> IF IsExc(result) THEN cache
                     ELSE DictSet(cache, CacheKey(sv.unit, target_unit), result)] :
            result \in {StorageValue(1, ConvertedIn(sv, target_unit, context_prec),
                                     target_unit)}} : TRUE

\* 1024, 1 and 3
OwnMagnitudes == {DecOfInt(1024), DecOfInt(1), DecOfInt(3)}
OwnUnits == {"BYTES", "KIB"}
OwnTargets == {"KIB", "BYTES", "GB", "YIB"}

NoOwnCall == [thread |-> "none", result |-> NoResult]

NoOwn ==
  /\ own_input = NoResult
  /\ own_pc = [t \in OwnThreads |-> "idle"]
  /\ own_prec = [t \in OwnThreads |-> prec]
  /\ own_storage = [t \in OwnThreads |-> NoResult]
  /\ own_cache = [t \in OwnThreads |-> <<>>]
  /\ own_calls = [t \in OwnThreads |-> 0]
  /\ own_last = NoOwnCall


OwnInit ==
  /\ own_input \in [value : OwnMagnitudes, unit : OwnUnits, target : OwnTargets]
  /\ own_pc = [t \in OwnThreads |-> "idle"]
  /\ own_prec = [t \in OwnThreads |-> prec]
  /\ own_storage = [t \in OwnThreads |-> NoResult]
  /\ own_cache = [t \in OwnThreads |-> <<>>]
  /\ own_calls = [t \in OwnThreads |-> 0]
  /\ own_last = NoOwnCall

\* the thread starts: its context has the default precision or the
\* precision of the thread that started it
own_start(t) ==
  /\ own_pc[t] = "idle"
  /\ \E context_prec \in {DefaultPrec, prec} :
       own_prec' = [own_prec EXCEPT ![t] = context_prec]
  /\ own_pc' = [own_pc EXCEPT ![t] = "started"]
  /\ UNCHANGED <<own_input, own_storage, own_cache, own_calls, own_last,
                 pmVars, thVars, ceVars, aeVars, apiVars, seqVars, propVars, cmpVars, raceVars>>

\* storage = Storage(value, unit) in thread t
own_create(t) ==
  /\ own_pc[t] = "started"
  /\ own_storage' = [own_storage EXCEPT
                       ![t] = StorageOfNumber(1, PyDecimal(own_input.value), own_input.unit)]
  /\ own_pc' = [own_pc EXCEPT ![t] = "created"]
  /\ UNCHANGED <<own_input, own_prec, own_cache, own_calls, own_last,
                 pmVars, thVars, ceVars, aeVars, apiVars, seqVars, propVars, cmpVars, raceVars>>

\* storage.convert_to(target_unit) in thread t: the engine converts, then
\* Storage(converted_value.decimal_value, converted_value.unit)
own_convert_to(t) ==
  /\ own_pc[t] = "created"
  /\ own_calls[t] < MaxOwnCalls
  /\ \E r \in {ConvertToIn(own_storage[t], own_cache[t], own_input.target, own_prec[t])} :
       /\ own_cache' = [own_cache EXCEPT ![t] = r.cache]
       /\ own_last' = [thread |-> t,
                       result |-> IF IsExc(r.result) THEN r.result
                                  ELSE StorageOfDecimal(r.result.decimal_value, r.result.unit)]
  /\ own_calls' = [own_calls EXCEPT ![t] = @ + 1]
  /\ UNCHANGED <<own_input, own_pc, own_prec, own_storage,
                 pmVars, thVars, ceVars, aeVars, apiVars, seqVars, propVars, cmpVars, raceVars>>

(***************************************************************************)
(* The conversion properties of one Storage (storage.py), read by several  *)
(* threads.  _get_cached_conversion checks the dict, takes _cache_lock,    *)
(* checks again, runs the converter and stores its result, releases the    *)
(* lock and reads the dict.  The converter of property X is                *)
(* self.convert_to(StorageUnit.X).                                         *)
(***************************************************************************)
PropThreads == {"p1", "p2"}

\* the number of property accesses of each thread
MaxAccesses == 2

\* the properties read
PropertyNames == {"BYTES", "KIB", "YIB"}

\* (mutation of NotCached: the property is never found)
NotCachedEver(unit_name) == TRUE

\* unit_name not in self._conversion_properties
NotCached(unit_name) == ~DictHas(conversion_properties, unit_name)

NoAccess == [thread |-> "none", unit_name |-> "none", result |-> NoResult]

NoProp ==
  /\ prop_storage = NoResult
  /\ prop_memo = <<>>
  /\ conversion_properties = <<>>
  /\ prop_lock = "none"
  /\ prop_next_id = 2
  /\ prop_pc = [t \in PropThreads |-> "idle"]
  /\ prop_unit = [t \in PropThreads |-> "none"]
  /\ prop_prec = [t \in PropThreads |-> prec]
  /\ prop_accesses = [t \in PropThreads |-> 0]
  /\ converter_runs = [n \in PropertyNames |-> 0]
  /\ first_property = <<>>
  /\ prop_last = NoAccess

NoComparison == [op |-> "none", result |-> NoResult]

NoCompare ==
  /\ cmp_left = NoResult
  /\ cmp_right = NoResult
  /\ cmp_last = NoComparison

RaceThreads == {"r1", "r2"}

NoRaceCall == [thread |-> "none", op |-> "none", target_unit |-> "none", result |-> NoResult]

NoRace ==
  /\ race_storage = NoResult
  /\ race_cache = <<>>
  /\ race_lock = "none"
  /\ race_pc = [t \in RaceThreads |-> "idle"]
  /\ race_target = [t \in RaceThreads |-> "none"]
  /\ race_prec = [t \in RaceThreads |-> prec]
  /\ race_result = [t \in RaceThreads |-> NoResult]
  /\ race_calls = [t \in RaceThreads |-> 0]
  /\ race_last = NoRaceCall

NoRest == NoOwn /\ NoProp /\ NoCompare /\ NoRace

\* storage = Storage(1, BYTES) or Storage(1024, KIB); p1 is the thread that
\* imported the library, p2 has the default precision or that of p1
PropInit ==
  /\ \E value \in OwnMagnitudes, unit \in OwnUnits :
       /\ <<value, unit>> \in {<<DecOfInt(1), "BYTES">>, <<DecOfInt(1024), "KIB">>}
       /\ prop_storage = StorageOfNumber(1, PyDecimal(value), unit)
  /\ prop_memo = <<>>
  /\ conversion_properties = <<>>
  /\ prop_lock = "none"
  /\ prop_next_id = 2
  /\ prop_pc = [t \in PropThreads |-> "idle"]
  /\ prop_unit = [t \in PropThreads |-> "none"]
  /\ \E context_prec \in {DefaultPrec, prec} :
       prop_prec = [t \in PropThreads |-> IF t = "p1" THEN prec ELSE context_prec]
  /\ prop_accesses = [t \in PropThreads |-> 0]
  /\ converter_runs = [n \in PropertyNames |-> 0]
  /\ first_property = <<>>
  /\ prop_last = NoAccess

PropStep(t, to) == prop_pc' = [prop_pc EXCEPT ![t] = to]

PropOthers == <<pmVars, thVars, ceVars, aeVars, apiVars, seqVars, ownVars, cmpVars, raceVars>>

\* thread t reads storage.<unit_name>: the first membership test, without
\* the lock
property_get(t, unit_name) ==
  /\ prop_pc[t] = "idle"
  /\ prop_accesses[t] < MaxAccesses
  /\ prop_unit' = [prop_unit EXCEPT ![t] = unit_name]
  /\ PropStep(t, IF NotCached(unit_name) THEN "acquire" ELSE "return")
  /\ UNCHANGED <<prop_storage, prop_memo, conversion_properties, prop_lock, prop_next_id,
                 prop_prec, prop_accesses, converter_runs, first_property, prop_last,
                 PropOthers>>

\* with self._cache_lock: enter
property_acquire(t) ==
  /\ prop_pc[t] = "acquire"
  /\ prop_lock = "none"
  /\ prop_lock' = t
  /\ PropStep(t, "check")
  /\ UNCHANGED <<prop_storage, prop_memo, conversion_properties, prop_next_id, prop_unit,
                 prop_prec, prop_accesses, converter_runs, first_property, prop_last,
                 PropOthers>>

\* the second membership test, with the lock
property_check(t) ==
  /\ prop_pc[t] = "check"
  /\ PropStep(t, IF NotCached(prop_unit[t]) THEN "convert" ELSE "release")
  /\ UNCHANGED <<prop_storage, prop_memo, conversion_properties, prop_lock, prop_next_id,
                 prop_unit, prop_prec, prop_accesses, converter_runs, first_property,
                 prop_last, PropOthers>>

\* self._conversion_properties[unit_name] = converter_func(): the engine
\* converts in the context of thread t, Storage(...) wraps the result
property_convert(t) ==
  /\ prop_pc[t] = "convert"
  /\ \E r \in {ConvertToIn(prop_storage, prop_memo, prop_unit[t], prop_prec[t])} :
       /\ prop_memo' = r.cache
       /\ conversion_properties' =
            DictSet(conversion_properties, prop_unit[t],
                    [StorageOfDecimal(r.result.decimal_value, r.result.unit)
                       EXCEPT !.id = prop_next_id])
  /\ prop_next_id' = prop_next_id + 1
  /\ converter_runs' = [converter_runs EXCEPT ![prop_unit[t]] = @ + 1]
  /\ PropStep(t, "release")
  /\ UNCHANGED <<prop_storage, prop_lock, prop_unit, prop_prec, prop_accesses,
                 first_property, prop_last, PropOthers>>

\* with self._cache_lock: leave
property_release(t) ==
  /\ prop_pc[t] = "release"
  /\ prop_lock' = "none"
  /\ PropStep(t, "return")
  /\ UNCHANGED <<prop_storage, prop_memo, conversion_properties, prop_next_id, prop_unit,
                 prop_prec, prop_accesses, converter_runs, first_property, prop_last,
                 PropOthers>>

KeyError == Raise("KeyError")

\* return self._conversion_properties[unit_name]
property_return(t) ==
  /\ prop_pc[t] = "return"
  /\ \E result \in {IF DictHas(conversion_properties, prop_unit[t])
                    THEN DictGet(conversion_properties, prop_unit[t]) ELSE KeyError} :
       /\ prop_last' = [thread |-> t, unit_name |-> prop_unit[t], result |-> result]
       /\ first_property' = IF DictHas(first_property, prop_unit[t]) THEN first_property
                            ELSE DictSet(first_property, prop_unit[t], result)
  /\ prop_accesses' = [prop_accesses EXCEPT ![t] = @ + 1]
  /\ PropStep(t, "idle")
  /\ UNCHANGED <<prop_storage, prop_memo, conversion_properties, prop_lock, prop_next_id,
                 prop_unit, prop_prec, converter_runs, PropOthers>>

vars == <<pmVars, thVars, ceVars, aeVars, apiVars, seqVars, restVars>>

InitCache == PMInit /\ ThreadsInit /\ NoEngines /\ NoArithmetic /\ NoApi /\ NoSequence /\ NoRest

NextCache ==
  \/ \E arg \in Literals : get_cached_decimal(arg)
  \/ clear_decimal_cache
  \/ reset_stats
  \/ optimize_memory_usage
  \/ record_conversion_hit
  \/ record_conversion_miss

\* one PerformanceManager, called from one thread
SpecCache == InitCache /\ [][NextCache]_vars

NextThreads ==
  \E t \in Threads :
    \/ \E arg \in Literals : t_acquire(t, arg)
    \/ t_check(t)
    \/ t_parse(t)
    \/ t_evict(t)
    \/ t_insert(t)

\* one PerformanceManager, get_cached_decimal called from several threads
SpecThreads == InitCache /\ [][NextThreads]_vars

\* PerformanceManager(): the manager a Storage constructs for itself
DefaultMaxCacheSize == 1000

PMDefault ==
  /\ max_cache_size = DefaultMaxCacheSize
  /\ decimal_cache = <<>>
  /\ stats = ZeroStats
  /\ pm_last = NoCall
  /\ inserted = <<>>

InitConv == PMDefault /\ ThreadsInit /\ CEInit /\ NoArithmetic /\ NoApi /\ NoSequence /\ NoRest

NextConv ==
  \/ \E e \in Engines, target_unit \in ConvUnits : convert_to(e, target_unit)
  \/ \E e \in Engines, target_unit \in ConvUnits : Storage_convert_to(e, target_unit)
  \/ \E e \in Engines, target_unit \in ConvUnits : to_unit(e, target_unit)
  \/ \E e \in Engines : clear_cache(e)
  \/ NewConversionEngine

\* a value, its conversion engine, and an engine on a converted value
SpecConv == InitConv /\ [][NextConv]_vars

InitArith == PMDefault /\ ThreadsInit /\ NoEngines /\ AEInit /\ NoApi /\ NoSequence /\ NoRest

NextArith ==
  \/ \E right_value \in {ae_arg} \cap Operands : add(right_value)
  \/ \E right_value \in {ae_arg} \cap Operands : Storage__add__(right_value)
  \/ \E right_value \in {ae_arg} \cap Operands : subtract(right_value)
  \/ \E right_value \in {ae_arg} \cap Operands : Storage__sub__(right_value)
  \/ \E factor \in {ae_arg} \cap Factors : multiply(factor)
  \/ \E factor \in {ae_arg} \cap Factors : Storage__mul__(factor)
  \/ \E factor \in {ae_arg} \cap Factors : Storage__rmul__(factor)
  \/ \E divisor \in {ae_arg} \cap Factors : divide(divisor)
  \/ \E divisor \in {ae_arg} \cap Factors : floor_divide(divisor)
  \/ \E divisor \in {ae_arg} \cap Factors : modulo(divisor)
  \/ \E divisor \in {ae_arg} \cap Factors : Storage__truediv__(divisor)
  \/ \E divisor \in {ae_arg} \cap Factors : Storage__floordiv__(divisor)
  \/ \E divisor \in {ae_arg} \cap Factors : Storage__mod__(divisor)

\* one left operand, one argument, and the operations made with them
SpecArith == InitArith /\ [][NextArith]_vars

InitInput == PMDefault /\ ThreadsInit /\ NoEngines /\ NoArithmetic /\ ApiInit /\ NoSequence /\ NoRest

NextInput ==
  \/ parse(api_value, api_unit)
  \/ Storage_parse(api_value, api_unit)
  \/ StorageValue__init__(api_value, api_unit)
  \/ Storage__init__(api_value, api_unit)

\* the texts parsed and the values constructed from arguments
SpecInput == InitInput /\ [][NextInput]_vars

InitSeq == PMDefault /\ ThreadsInit /\ NoEngines /\ NoArithmetic /\ NoApi /\ NoSequence /\ NoRest

NextSeq ==
  \/ \E constructor \in Constructors, value \in SeqValues, unit \in SeqUnits :
       construct(constructor, value, unit)
  \/ \E caller \in Callers, other \in SeqOperands : then_add(caller, other)
  \/ \E caller \in Callers, other \in SeqOperands : then_subtract(caller, other)
  \/ \E caller \in Callers \cup {"Storage.__rmul__"}, factor \in SeqFactors :
       then_multiply(caller, factor)
  \/ \E caller \in Callers, divisor \in SeqFactors : then_divide(caller, divisor)
  \/ \E caller \in Callers, divisor \in SeqFactors : then_floor_divide(caller, divisor)
  \/ \E caller \in Callers, divisor \in SeqFactors : then_modulo(caller, divisor)
  \/ \E caller \in Callers, target_unit \in SeqTargets : then_convert_to(caller, target_unit)

SpecSeq == InitSeq /\ [][NextSeq]_vars

InitOwn == PMDefault /\ ThreadsInit /\ NoEngines /\ NoArithmetic /\ NoApi /\ NoSequence /\ OwnInit /\ NoProp /\ NoCompare /\ NoRace

NextOwn == \E t \in OwnThreads : own_start(t) \/ own_create(t) \/ own_convert_to(t)

SpecOwn == InitOwn /\ [][NextOwn]_vars

InitProp ==
  PMDefault /\ ThreadsInit /\ NoEngines /\ NoArithmetic /\ NoApi /\ NoSequence /\ NoOwn /\ PropInit /\ NoCompare /\ NoRace

NextProp ==
  \E t \in PropThreads :
    \/ \E unit_name \in PropertyNames : property_get(t, unit_name)
    \/ property_acquire(t)
    \/ property_check(t)
    \/ property_convert(t)
    \/ property_release(t)
    \/ property_return(t)

SpecProp == InitProp /\ [][NextProp]_vars

(***************************************************************************)
(* Storage.__eq__, __lt__, __gt__ and __hash__ (storage.py), called in the *)
(* thread that imported the library.                                       *)
(***************************************************************************)
\* Storage._comparison_tolerance = Decimal('1e-10')
comparison_tolerance == MkDec(FALSE, <<1>>, -10)

\* abs(x) of a finite Decimal
DAbs(x) == MkDec(FALSE, x.c, x.e)

\* Storage.convert_to_bytes()
convert_to_bytes(sv) == ToBytes(sv)

\* Storage.__eq__(other)
StorageEq(left, other) ==
  IF ~IsStorageValue(other) THEN FALSE
  ELSE DLess(DAbs(DSub(convert_to_bytes(left), convert_to_bytes(other))),
             comparison_tolerance)

\* Storage.__lt__(other) and Storage.__gt__(other)
StorageLt(left, other) ==
  IF ~IsStorageValue(other) THEN NotImplemented
  ELSE DLess(convert_to_bytes(left), convert_to_bytes(other))

StorageGt(left, other) ==
  IF ~IsStorageValue(other) THEN NotImplemented
  ELSE DLess(convert_to_bytes(other), convert_to_bytes(left))

\* hash(f) of a float f >= 0 on a 64-bit build: f reduced modulo 2^61 - 1
HashOfFloat(f) ==
  IF f.m = <<>> THEN <<>>
  ELSE BigDivMod(BigMul(f.m, Pow2(f.k % 61)), BigSub(Pow2(61), <<1>>))[2]

\* Storage.__hash__()
StorageHash(sv) ==
  CHOOSE h \in {HashOfFloat(f) : f \in {FloatOf(convert_to_bytes(sv))}} : TRUE

\* 0, 1E-11, 1, 1.5, 1024 and 1024.00000000001
CompareMagnitudes ==
  {DZero, MkDec(FALSE, <<1>>, -11), DecOfInt(1), MkDec(FALSE, <<1, 5>>, -1),
   DecOfInt(1024), MkDec(FALSE, <<1, 0, 2, 4, 0, 0, 0, 0, 0, 0, 0, 0, 0, 0, 0, 1>>, -11)}
CompareUnits == {"BYTES", "KIB"}

CompareOperands ==
  {StorageOfNumber(1, PyDecimal(value), unit) : value \in CompareMagnitudes, unit \in CompareUnits}

\* left and right are Storage objects, or right is the int 1024
CompareInit ==
  /\ cmp_left \in CompareOperands
  /\ cmp_right \in CompareOperands \cup {PyInt(1024)}
  /\ cmp_last = NoComparison

CompareOthers == <<pmVars, thVars, ceVars, aeVars, apiVars, seqVars, ownVars, propVars, raceVars>>

Compared(op, result) ==
  /\ cmp_last' = [op |-> op, result |-> result]
  /\ UNCHANGED <<cmp_left, cmp_right, CompareOthers>>

\* left == right
Storage__eq__ ==
  \E result \in {StorageEq(cmp_left, cmp_right)} : Compared("__eq__", [bool |-> result])

\* left < right
Storage__lt__ ==
  \E result \in {StorageLt(cmp_left, cmp_right)} :
    Compared("__lt__", IF IsStorageValue(cmp_right) THEN [bool |-> result] ELSE result)

\* left > right
Storage__gt__ ==
  \E result \in {StorageGt(cmp_left, cmp_right)} :
    Compared("__gt__", IF IsStorageValue(cmp_right) THEN [bool |-> result] ELSE result)

\* hash(left)
Storage__hash__ ==
  \E result \in {StorageHash(cmp_left)} : Compared("__hash__", [int |-> result])

InitCompare ==
  PMDefault /\ ThreadsInit /\ NoEngines /\ NoArithmetic /\ NoApi /\ NoSequence /\ NoOwn /\ NoProp
  /\ CompareInit /\ NoRace

NextCompare == Storage__eq__ \/ Storage__lt__ \/ Storage__gt__ \/ Storage__hash__

SpecCompare == InitCompare /\ [][NextCompare]_vars

(***************************************************************************)
(* ConversionEngine.convert_to and clear_cache (core.py) called by threads *)
(* that share one engine.  Each thread runs the statements of its call one *)
(* at a time; only the write and the clear hold _cache_lock.               *)
(***************************************************************************)
\* the number of calls one thread makes on the shared engine
MaxRaceCalls == 2

RaceTargets == {"BYTES", "KIB", "YIB"}

\* engine = ConversionEngine(StorageValue(1, BYTES)) or (1024, KIB); r1 is
\* the thread that imported the library, r2 has the default precision or
\* that of r1
RaceInit ==
  /\ \E value \in OwnMagnitudes, unit \in OwnUnits :
       /\ <<value, unit>> \in {<<DecOfInt(1), "BYTES">>, <<DecOfInt(1024), "KIB">>}
       /\ race_storage = StorageValue(1, value, unit)
  /\ race_cache = <<>>
  /\ race_lock = "none"
  /\ race_pc = [t \in RaceThreads |-> "idle"]
  /\ race_target = [t \in RaceThreads |-> "none"]
  /\ \E context_prec \in {DefaultPrec, prec} :
       race_prec = [t \in RaceThreads |-> IF t = "r1" THEN prec ELSE context_prec]
  /\ race_result = [t \in RaceThreads |-> NoResult]
  /\ race_calls = [t \in RaceThreads |-> 0]
  /\ race_last = NoRaceCall

RaceOthers == <<pmVars, thVars, ceVars, aeVars, apiVars, seqVars, ownVars, propVars, cmpVars>>

RaceStep(t, to) == race_pc' = [race_pc EXCEPT ![t] = to]

\* the call of thread t returns result or raises it
RaceReturn(t, op, result) ==
  /\ RaceStep(t, "idle")
  /\ race_calls' = [race_calls EXCEPT ![t] = @ + 1]
  /\ race_last' = [thread |-> t, op |-> op, target_unit |-> race_target[t], result |-> result]

RaceKey(t) == CacheKey(race_storage.unit, race_target[t])

\* thread t calls convert_to(target_unit): the identity test
convert_to_start(t, target_unit) ==
  /\ race_pc[t] = "idle"
  /\ race_calls[t] < MaxRaceCalls
  /\ race_target' = [race_target EXCEPT ![t] = target_unit]
  /\ IF race_storage.unit = target_unit
     THEN /\ race_calls' = [race_calls EXCEPT ![t] = @ + 1]
          /\ race_last' = [thread |-> t, op |-> "convert_to", target_unit |-> target_unit,
                           result |-> race_storage]
          /\ UNCHANGED race_pc
     ELSE /\ RaceStep(t, "check")
          /\ UNCHANGED <<race_calls, race_last>>
  /\ UNCHANGED <<race_storage, race_cache, race_lock, race_prec, race_result, RaceOthers>>

\* if cache_key in self._conversion_cache (no lock held)
convert_to_check(t) ==
  /\ race_pc[t] = "check"
  /\ RaceStep(t, IF DictHas(race_cache, RaceKey(t)) THEN "read" ELSE "compute")
  /\ UNCHANGED <<race_storage, race_cache, race_lock, race_target, race_prec, race_result,
                 race_calls, race_last, RaceOthers>>

\* return self._conversion_cache[cache_key] (no lock held)
convert_to_read(t) ==
  /\ race_pc[t] = "read"
  /\ RaceReturn(t, "convert_to",
                IF DictHas(race_cache, RaceKey(t)) THEN DictGet(race_cache, RaceKey(t))
                ELSE KeyError)
  /\ UNCHANGED <<race_storage, race_cache, race_lock, race_target, race_prec, race_result,
                 RaceOthers>>

\* bytes_value, target_decimal_value and result, in the context of thread t
convert_to_compute(t) ==
  /\ race_pc[t] = "compute"
  /\ \E result \in {StorageValue(2, ConvertedIn(race_storage, race_target[t], race_prec[t]),
                                 race_target[t])} :
       IF IsExc(result)
       THEN RaceReturn(t, "convert_to", result) /\ UNCHANGED race_result
       ELSE /\ race_result' = [race_result EXCEPT ![t] = result]
            /\ RaceStep(t, "lock")
            /\ UNCHANGED <<race_calls, race_last>>
  /\ UNCHANGED <<race_storage, race_cache, race_lock, race_target, race_prec, RaceOthers>>

\* with self._cache_lock (enter), in convert_to and in clear_cache
cache_lock_acquire(t) ==
  /\ race_pc[t] \in {"lock", "clear_lock"}
  /\ race_lock = "none"
  /\ race_lock' = t
  /\ RaceStep(t, IF race_pc[t] = "lock" THEN "store" ELSE "clear")
  /\ UNCHANGED <<race_storage, race_cache, race_target, race_prec, race_result,
                 race_calls, race_last, RaceOthers>>

\* self._conversion_cache[cache_key] = result
convert_to_store(t) ==
  /\ race_pc[t] = "store"
  /\ race_cache' = DictSet(race_cache, RaceKey(t), race_result[t])
  /\ RaceStep(t, "unlock")
  /\ UNCHANGED <<race_storage, race_lock, race_target, race_prec, race_result,
                 race_calls, race_last, RaceOthers>>

\* with self._cache_lock (leave) and return result
convert_to_return(t) ==
  /\ race_pc[t] = "unlock"
  /\ race_lock' = "none"
  /\ RaceReturn(t, "convert_to", race_result[t])
  /\ UNCHANGED <<race_storage, race_cache, race_target, race_prec, race_result, RaceOthers>>

\* thread t calls clear_cache()
clear_cache_start(t) ==
  /\ race_pc[t] = "idle"
  /\ race_calls[t] < MaxRaceCalls
  /\ race_target' = [race_target EXCEPT ![t] = "none"]
  /\ RaceStep(t, "clear_lock")
  /\ UNCHANGED <<race_storage, race_cache, race_lock, race_prec, race_result,
                 race_calls, race_last, RaceOthers>>

\* self._conversion_cache.clear()
clear_cache_clear(t) ==
  /\ race_pc[t] = "clear"
  /\ race_cache' = <<>>
  /\ RaceStep(t, "clear_unlock")
  /\ UNCHANGED <<race_storage, race_lock, race_target, race_prec, race_result,
                 race_calls, race_last, RaceOthers>>

\* with self._cache_lock (leave) and return None
clear_cache_return(t) ==
  /\ race_pc[t] = "clear_unlock"
  /\ race_lock' = "none"
  /\ RaceReturn(t, "clear_cache", NoResult)
  /\ UNCHANGED <<race_storage, race_cache, race_target, race_prec, race_result, RaceOthers>>

InitRace ==
  PMDefault /\ ThreadsInit /\ NoEngines /\ NoArithmetic /\ NoApi /\ NoSequence /\ NoOwn /\ NoProp
  /\ NoCompare /\ RaceInit

NextRace ==
  \E t \in RaceThreads :
    \/ \E target_unit \in RaceTargets : convert_to_start(t, target_unit)
    \/ convert_to_check(t)
    \/ convert_to_read(t)
    \/ convert_to_compute(t)
    \/ cache_lock_acquire(t)
    \/ convert_to_store(t)
    \/ convert_to_return(t)
    \/ clear_cache_start(t)
    \/ clear_cache_clear(t)
    \/ clear_cache_return(t)

SpecRace == InitRace /\ [][NextRace]_vars

(***************************************************************************)
(* Properties of the decimal cache                                         *)
(***************************************************************************)

\* the step is a call of get_cached_decimal
IsGet == pm_last'.seq = pm_last.seq + 1 /\ pm_last'.op = "get_cached_decimal"

\* C1: whatever the configured capacity and whatever calls were made, the
\* decimal cache never holds more than max_cache_size entries.
C1_CacheBounded == Len(decimal_cache) <= max_cache_size

\* a miss on a full cache completed and the cache is full again
C1_Witness ==
  /\ max_cache_size = MaxCap
  /\ pm_last.op = "get_cached_decimal" /\ pm_last.outcome = "miss"
  /\ pm_last.size_before = max_cache_size
  /\ Len(decimal_cache) = max_cache_size

\* C2: eviction is first-in-first-out.  The cache always holds the last
\* max_cache_size keys inserted, in insertion order (so capacity + 1 distinct
\* literals inserted into an empty cache leave literals 2..capacity+1), and a
\* miss that inserts into a full cache removes the oldest entry and no other.
C2_FifoEviction ==
  /\ [](Keys(decimal_cache) = Suffix(inserted, Min(max_cache_size, Len(inserted))))
  /\ [][(IsGet /\ pm_last'.outcome = "miss" /\ Len(decimal_cache) = max_cache_size)
          => decimal_cache' = Append(Tail(decimal_cache),
                                     [key |-> pm_last'.arg, value |-> pm_last'.result])]_vars
  /\ [][(IsGet /\ pm_last'.outcome = "miss" /\ Len(decimal_cache) < max_cache_size)
          => decimal_cache' = Append(decimal_cache,
                                     [key |-> pm_last'.arg, value |-> pm_last'.result])]_vars

\* capacity + 1 distinct literals went into an empty cache, the first is gone
C2_Witness ==
  /\ max_cache_size = MaxCap
  /\ Len(inserted) = max_cache_size + 1
  /\ Cardinality({inserted[i] : i \in 1..Len(inserted)}) = Len(inserted)
  /\ pm_last.seq = max_cache_size + 1
  /\ Keys(decimal_cache) = Tail(inserted)

\* C3: eviction is not LRU.  A hit leaves the cache and its order unchanged,
\* and a miss on a full cache that follows a hit on the oldest-inserted literal
\* still evicts that literal.
C3_HitKeepsOrder ==
  /\ [][(IsGet /\ pm_last'.outcome = "hit") => decimal_cache' = decimal_cache]_vars
  /\ []((/\ pm_last.op = "get_cached_decimal" /\ pm_last.outcome = "miss"
          /\ pm_last.size_before = max_cache_size
          /\ pm_last.prev_op = "get_cached_decimal" /\ pm_last.prev_outcome = "hit"
          /\ pm_last.prev_arg = pm_last.oldest_before)
         => pm_last.oldest_before \notin KeySet(decimal_cache))

\* a miss on a full cache of two or more entries right after a hit on the oldest one
C3_Witness ==
  /\ pm_last.op = "get_cached_decimal" /\ pm_last.outcome = "miss"
  /\ pm_last.size_before = max_cache_size /\ max_cache_size >= 2
  /\ pm_last.prev_op = "get_cached_decimal" /\ pm_last.prev_outcome = "hit"
  /\ pm_last.prev_arg = pm_last.oldest_before
  /\ pm_last.oldest_before \notin KeySet(decimal_cache)

\* the PerformanceManager state after the calls of lock_order, made one after
\* the other
RECURSIVE Replay(_, _)
Replay(calls, n) ==
  IF n = 0 THEN [cache |-> <<>>, stats |-> ZeroStats]
  ELSE LET before == Replay(calls, n - 1)
       IN GetCachedDecimal(before.cache, before.stats, max_cache_size, calls[n].arg)

\* C4: concurrent get_cached_decimal calls are atomic.  At most one thread is
\* inside the method, the cache never exceeds its capacity and never holds a
\* key twice, and whenever the lock is free the cache (entries and order) and
\* the counters are those of the same calls made one after the other in the
\* order they acquired the lock, each call having returned what it returns
\* in that sequential run.
C4_AtomicCalls ==
  /\ Cardinality({t \in Threads : pc[t] # "idle"}) <= 1
  /\ Len(decimal_cache) <= max_cache_size
  /\ Cardinality(KeySet(decimal_cache)) = Len(decimal_cache)
  /\ lock_owner = NoThread =>
       /\ decimal_cache = Replay(lock_order, Len(lock_order)).cache
       /\ stats = Replay(lock_order, Len(lock_order)).stats
       /\ \A n \in 1..Len(lock_order) :
            LET r == Replay(lock_order, n)
            IN lock_order[n].outcome = r.outcome /\ lock_order[n].result = r.result

\* both threads have called, the calls are over and one of them evicted
C4_Witness ==
  /\ lock_owner = NoThread
  /\ \A t \in Threads : call_idx[t] > 0
  /\ max_cache_size >= 1
  /\ Len(lock_order) > max_cache_size
  /\ \A n \in 1..Len(lock_order) : lock_order[n].outcome = "miss"

\* C5: the hit and miss counters.  Every get_cached_decimal call adds one to
\* exactly one of them: to the hits when the literal is cached, to the misses
\* otherwise.  reset_stats sets all four counters to zero and leaves the
\* cache unchanged.  No other call lowers a counter.
C5_Counters ==
  [][/\ IsGet =>
          IF DictHas(decimal_cache, pm_last'.arg)
          THEN /\ stats'.decimal_cache_hits = stats.decimal_cache_hits + 1
               /\ stats'.decimal_cache_misses = stats.decimal_cache_misses
          ELSE /\ stats'.decimal_cache_misses = stats.decimal_cache_misses + 1
               /\ stats'.decimal_cache_hits = stats.decimal_cache_hits
     /\ pm_last'.op = "reset_stats" =>
          stats' = ZeroStats /\ decimal_cache' = decimal_cache
     /\ pm_last'.op # "reset_stats" =>
          /\ stats'.decimal_cache_hits >= stats.decimal_cache_hits
          /\ stats'.decimal_cache_misses >= stats.decimal_cache_misses]_vars

\* both counters counted, a call raised after counting its miss, and
\* reset_stats then zeroed the counters of a non-empty cache
C5_Witness ==
  /\ pm_last.op = "reset_stats"
  /\ pm_last.prev_op = "get_cached_decimal" /\ pm_last.prev_outcome = "raise"
  /\ stats = ZeroStats
  /\ decimal_cache # <<>>

(***************************************************************************)
(* Properties of conversion                                                *)
(***************************************************************************)
IsConversion(op) == op \in {"convert_to", "Storage.convert_to"}

\* the last call converted the value of e2 (a value that a conversion of
\* e1 returned) back to the unit of e1
ConvertedBack ==
  /\ IsConversion(ce_last.op)
  /\ ce_last.engine = "e2"
  /\ ce_last.target = storage_value["e1"].unit

\* C6: converting a value to a target unit and converting the result back to
\* the original unit, with ConversionEngine.convert_to or Storage.convert_to,
\* returns the original unit and exactly the original magnitude.
C6_RoundTrip ==
  ConvertedBack =>
    /\ ce_last.result.unit = storage_value["e1"].unit
    /\ ce_last.result.decimal_value = storage_value["e1"].decimal_value

\* a round trip through another unit that does come back to the original
\* magnitude: 1024 BYTES -> KIB -> BYTES
C6_ExactTrip ==
  /\ ConvertedBack
  /\ storage_value["e1"].unit = "BYTES"
  /\ storage_value["e2"].unit = "KIB"
  /\ storage_value["e1"].decimal_value = DecOfInt(1024)
  /\ ce_last.result.decimal_value = DecOfInt(1024)

\* C7: convert_to with the value's own unit returns the bound StorageValue
\* object itself, performs no division and leaves the engine's memo as it
\* was; to_unit with the own unit returns the stored magnitude.
C7_IdentityConversion ==
  /\ \A e \in Engines :
       (/\ ce_last.op = "convert_to"
        /\ ce_last.engine = e
        /\ ce_last.target = storage_value[e].unit)
       => /\ ce_last.result = storage_value[e]
          /\ ~ce_last.computed
          /\ conversion_cache[e] = ce_last.cache_before
  /\ \A e \in Engines :
       (/\ ce_last.op = "to_unit"
        /\ ce_last.engine = e
        /\ ce_last.target = storage_value[e].unit)
       => ce_last.result = storage_value[e].decimal_value

\* an identity conversion on an engine whose memo already holds an entry,
\* of a magnitude that a division would have rounded
C7_Witness ==
  /\ ce_last.op = "convert_to"
  /\ ce_last.engine = "e1"
  /\ ce_last.target = storage_value["e1"].unit
  /\ Len(storage_value["e1"].decimal_value.c) > prec
  /\ conversion_cache["e1"] # <<>>

\* C8: on one engine, every convert_to to a unit other than the source unit
\* returns the object the first such call returned since the engine was
\* built or its cache cleared; a call after the first computes nothing and
\* leaves the cache as it was.
C8_Memoized ==
  \A e \in Engines :
    (/\ ce_last.op = "convert_to"
     /\ ce_last.engine = e
     /\ ce_last.target # storage_value[e].unit)
    => /\ ce_last.result =
            DictGet(first_returned[e], CacheKey(storage_value[e].unit, ce_last.target))
       /\ ce_last.repeat =>
            /\ ~ce_last.computed
            /\ conversion_cache[e] = ce_last.cache_before

\* a repeated convert_to to another unit, with a second key in the memo
C8_Witness ==
  /\ ce_last.op = "convert_to"
  /\ ce_last.repeat
  /\ ce_last.target # storage_value[ce_last.engine].unit
  /\ Len(conversion_cache[ce_last.engine]) = 2
  /\ ce_last.seq = 3

(***************************************************************************)
(* Properties of addition                                                  *)
(***************************************************************************)
IsAddition ==
  /\ ae_last.op \in {"add", "Storage.__add__"}
  /\ IsStorageValue(ae_last.right)

\* C9: adding two operands of the same unit, with ArithmeticEngine.add or
\* Storage.__add__, gives that unit and exactly the sum of the magnitudes.
C9_SameUnitSum ==
  (IsAddition /\ ae_last.right.unit = left_value.unit) =>
    /\ ae_last.result.unit = left_value.unit
    /\ ae_last.result.decimal_value =
         ExactSum(left_value.decimal_value, ae_last.right.decimal_value)

\* same-unit additions that are exact: 3 GB + 2 GB = 5 GB, 1.1 + 2.2 = 3.3
C9_ExactSums ==
  /\ IsAddition
  /\ ae_last.right.unit = left_value.unit
  /\ \/ /\ left_value.unit = "GB"
        /\ left_value.decimal_value = DecOfInt(3)
        /\ ae_last.right.decimal_value = DecOfInt(2)
        /\ ae_last.result.decimal_value = DecOfInt(5)
        /\ ae_last.result.unit = "GB"
     \/ /\ left_value.decimal_value = MkDec(FALSE, <<1, 1>>, -1)
        /\ ae_last.right.decimal_value = MkDec(FALSE, <<2, 2>>, -1)
        /\ ae_last.result.decimal_value = MkDec(FALSE, <<3, 3>>, -1)

\* the exact number of bytes of a StorageValue
ExactBytes(sv) == ExactProduct(sv.decimal_value, UnitValue(sv.unit))

\* C10: adding two operands of different units gives BYTES and exactly the
\* sum of the two byte counts, whichever operand is on the left.
C10_CrossUnitSum ==
  (IsAddition /\ ae_last.right.unit # left_value.unit) =>
    /\ ae_last.result.unit = "BYTES"
    /\ ae_last.result.decimal_value = ExactSum(ExactBytes(left_value), ExactBytes(ae_last.right))
    /\ LET swapped == Add(ae_last.right, left_value, 3)
       IN /\ swapped.unit = ae_last.result.unit
          /\ swapped.decimal_value = ae_last.result.decimal_value

\* a cross-unit addition that is exact: 1 KIB + 512 BYTES = 1536 BYTES
C10_ExactSum ==
  /\ IsAddition
  /\ left_value.unit = "KIB"
  /\ left_value.decimal_value = DecOfInt(1)
  /\ ae_last.right.unit = "BYTES"
  /\ ae_last.right.decimal_value = DecOfInt(512)
  /\ ae_last.result.unit = "BYTES"
  /\ ae_last.result.decimal_value = DecOfInt(1536)

(***************************************************************************)
(* Properties of subtraction                                               *)
(***************************************************************************)
IsSubtraction ==
  /\ ae_last.op \in {"subtract", "Storage.__sub__"}
  /\ IsStorageValue(ae_last.right)

\* C11: a subtraction fails with ValueError ("result cannot be negative")
\* exactly when the right operand is more bytes than the left one; otherwise
\* it returns a value of magnitude >= 0, in the common unit when the operands
\* share one and in BYTES when they do not.
C11_SubtractNonNegative ==
  IsSubtraction =>
    IF DLess(ExactBytes(left_value), ExactBytes(ae_last.right))
    THEN ae_last.result = ValueError
    ELSE /\ IsStorageValue(ae_last.result)
         /\ ~DIsNeg(ae_last.result.decimal_value)
         /\ ae_last.result.unit =
              (IF ae_last.right.unit = left_value.unit THEN left_value.unit ELSE "BYTES")

\* subtractions that behave as described: 2 KIB - 512 BYTES = 1536 BYTES,
\* and 1 KIB - 2 KIB fails
C11_Subtractions ==
  /\ IsSubtraction
  /\ left_value.unit = "KIB"
  /\ \/ /\ left_value.decimal_value = DecOfInt(2)
        /\ ae_last.right.unit = "BYTES"
        /\ ae_last.right.decimal_value = DecOfInt(512)
        /\ ae_last.result.unit = "BYTES"
        /\ ae_last.result.decimal_value = DecOfInt(1536)
     \/ /\ left_value.decimal_value = DecOfInt(1)
        /\ ae_last.right.unit = "KIB"
        /\ ae_last.right.decimal_value = DecOfInt(2)
        /\ ae_last.result = ValueError

(***************************************************************************)
(* Properties of division and multiplication by a number                   *)
(***************************************************************************)
\* a call of divide, floor_divide or modulo with a number that compares
\* with 0 (a NaN does not)
IsDivision ==
  /\ ae_last.op \in {"divide", "floor_divide", "modulo"}
  /\ IsNumber(ae_last.right)
  /\ ~IsNaN(AsDecimal(ae_last.right))

\* C13: divide, floor_divide and modulo fail with ValueError ("Divisor must
\* be positive") for every divisor <= 0, and for every divisor > 0 return a
\* value in the unit of the left operand.
C13_PositiveDivisor ==
  IsDivision =>
    IF IsNonPositive(ae_last.right) THEN ae_last.result = ValueError
    ELSE /\ IsStorageValue(ae_last.result)
         /\ ae_last.result.unit = left_value.unit

\* divisions that behave as described: 3 KIB / 2 = 1.5 KIB, 3 KIB // 2 =
\* 1 KIB, 3 KIB % 2 = 1 KIB, and a divisor 0 raises ValueError
C13_Divisions ==
  /\ IsDivision
  /\ left_value.unit = "KIB"
  /\ left_value.decimal_value = DecOfInt(3)
  /\ \/ /\ ae_last.right = PyInt(2)
        /\ ae_last.result.unit = "KIB"
        /\ ae_last.result.decimal_value =
             (CASE ae_last.op = "divide" -> MkDec(FALSE, <<1, 5>>, -1)
                [] ae_last.op = "floor_divide" -> DecOfInt(1)
                [] ae_last.op = "modulo" -> DecOfInt(1))
     \/ /\ ae_last.right = PyInt(0)
        /\ ae_last.result = ValueError

\* a call of multiply, Storage.__mul__ or Storage.__rmul__ with a number
\* that compares with 0
IsMultiplication ==
  /\ ae_last.op \in {"multiply", "Storage.__mul__", "Storage.__rmul__"}
  /\ IsNumber(ae_last.right)
  /\ ae_last.op = "Storage.__mul__" => ae_last.right.type \in {"int", "float"}
  /\ ~IsNaN(AsDecimal(ae_last.right))

\* the exact product of a finite x >= 0 and a number y >= 0
ExactTimes(x, y) == IF IsInf(y) THEN DecMul(x, y) ELSE ExactProduct(x, y)

\* C14: multiplying by a factor < 0 fails with ValueError; by any other
\* factor, 0 included, it returns a new value in the unit of the left
\* operand whose magnitude is exactly the magnitude of the left operand
\* times the factor.
C14_MultiplyExact ==
  IsMultiplication =>
    IF IsNegative(ae_last.right) THEN ae_last.result = ValueError
    ELSE /\ IsStorageValue(ae_last.result)
         /\ ae_last.result.id # left_value.id
         /\ ae_last.result.unit = left_value.unit
         /\ ae_last.result.decimal_value =
              ExactTimes(left_value.decimal_value, AsDecimal(ae_last.right))

\* multiplications that behave as described: 3 KIB * 2 = 6 KIB,
\* 3 KIB * 0 = 0 KIB, 3 KIB * 0.5 = 1.5 KIB, and 3 KIB * -1 raises
C14_Products ==
  /\ IsMultiplication
  /\ left_value.unit = "KIB"
  /\ left_value.decimal_value = DecOfInt(3)
  /\ \/ /\ ae_last.right = PyInt(2)
        /\ ae_last.result.unit = "KIB"
        /\ ae_last.result.decimal_value = DecOfInt(6)
     \/ /\ ae_last.right = PyInt(0)
        /\ ae_last.result.unit = "KIB"
        /\ ae_last.result.decimal_value = DZero
     \/ /\ ae_last.right = PyFloat(<<"0", ".", "5">>)
        /\ ae_last.result.unit = "KIB"
        /\ ae_last.result.decimal_value = MkDec(FALSE, <<1, 5>>, -1)
     \/ /\ ae_last.right = PyInt(-1)
        /\ ae_last.result = ValueError

(***************************************************************************)
(* Properties of the parser                                                *)
(***************************************************************************)
IsParse == api_last.op \in {"parse", "Storage.parse"}

\* C15: parse("500") yields (500, BYTES) and parse("1,024 KiB") yields
\* (1024, KIB).
C15_ParseExamples ==
  (api_last.op = "parse" /\ api_unit = None) =>
    /\ api_value = PyStr(<<"5", "0", "0">>) =>
         api_last.result = [value |-> DecOfInt(500), unit |-> "BYTES"]
    /\ api_value = PyStr(<<"1", ",", "0", "2", "4", " ", "K", "i", "B">>) =>
         api_last.result = [value |-> DecOfInt(1024), unit |-> "KIB"]

\* parse("500") gives (500, BYTES)
C15_Parse500 ==
  /\ api_last.op = "parse"
  /\ api_unit = None
  /\ api_value = PyStr(<<"5", "0", "0">>)
  /\ api_last.result = [value |-> DecOfInt(500), unit |-> "BYTES"]

\* the trailing unit token of a text: its longest suffix of letters
TrailingToken(str) ==
  LET text == Strip(str)
      other == {i \in 1..Len(text) : LowerChar(text[i]) \notin Letters}
      from == IF other = {} THEN 1 ELSE (CHOOSE i \in other : \A j \in other : j <= i) + 1
  IN SubSeq(text, from, Len(text))

\* what precedes the trailing unit token and the whitespace before it
NumericPart(str) ==
  LET text == Strip(str)
  IN ReplaceComma(Strip(SubSeq(text, 1, Len(text) - Len(TrailingToken(str)))))

\* the text is a numeric literal [0-9]*\.?[0-9]+ (with ',' for '.'), optional
\* whitespace and an optional unit token of letters
MatchesGrammar(str) == IsNumeral(NumericPart(str))

\* the text carries a leading sign
HasLeadingSign(str) == Strip(str) # <<>> /\ Head(Strip(str)) \in {"+", "-"}

IsValueError(x) == IsExc(x) /\ x.exc = "ValueError"

\* C16: StringParser.parse and Storage.parse fail with ValueError for every
\* text that is empty or whitespace only or does not match the grammar; a
\* text with a leading sign fails with the "Invalid format" error; an input
\* that is not a str fails with TypeError.
C16_FormatErrors ==
  IsParse =>
    IF api_value.type # "str" THEN api_last.result = TypeError
    ELSE /\ Strip(api_value.value) = <<>> => api_last.result = EmptyInput
         /\ ~MatchesGrammar(api_value.value) => IsValueError(api_last.result)
         /\ HasLeadingSign(api_value.value) => api_last.result = InvalidFormat

\* the four kinds of rejected input have been parsed: "", "abc", "-1 MB"
\* and an int
C16_Witness ==
  /\ IsParse
  /\ \/ api_value = PyStr(<<" ">>) /\ api_last.result = EmptyInput
     \/ api_value = PyStr(<<"a", "b", "c">>) /\ api_last.result = InvalidFormat
     \/ api_value = PyStr(<<"-", "1", " ", "M", "B">>) /\ api_last.result = InvalidFormat
     \/ api_value = PyInt(5) /\ api_last.result = TypeError

\* the unit named by a token whatever its case, or the fallback
UnitOfToken(token, fallback) ==
  IF \E alias \in DOMAIN UnitAliases : Lower(token) = alias
  THEN UnitAliases[Lower(token)]
  ELSE fallback

\* C17: when the numeric part of a text is a numeric literal, parse
\* succeeds; the unit is the one of the trailing token when the token, in
\* any case, is an alias, and otherwise default_unit (BYTES when there is
\* none).  Storage.parse and Storage(text, unit) follow the same rule.
C17_UnitFallback ==
  (/\ api_last.op \in {"parse", "Storage.parse", "Storage"}
   /\ api_value.type = "str"
   /\ MatchesGrammar(api_value.value)
   /\ api_last.op = "parse" \/ api_unit # "invalid_unit") =>
    /\ ~IsExc(api_last.result)
    /\ api_last.result.unit =
         UnitOfToken(TrailingToken(api_value.value),
                     IF api_unit = None THEN "BYTES"
                     ELSE IF api_unit = AUTO /\ api_last.op # "parse" THEN "BYTES"
                     ELSE api_unit)

\* a text without unit, one with an unknown unit and one with an alias in
\* capitals have been parsed with default unit KIB
C17_Witness ==
  /\ api_last.op = "parse"
  /\ api_unit = "KIB"
  /\ \/ api_value = PyStr(<<"1">>) /\ api_last.result.unit = "KIB"
     \/ api_value = PyStr(<<"1", " ", "x", "y", "z">>) /\ api_last.result.unit = "KIB"
     \/ api_value = PyStr(<<"1", "G", "b">>) /\ api_last.result.unit = "GB"

(***************************************************************************)
(* Properties of the constructors                                          *)
(***************************************************************************)
\* the exact decimal a value denotes: Decimal(value) for a str
Denoted(value) ==
  IF value.type = "str" THEN DecimalOfStr(value.value) ELSE AsDecimal(value)

\* an int, a decimal string or a Decimal that denotes a finite number >= 0
IsExactNonNegative(value) ==
  /\ value.type \in {"int", "str", "Decimal"}
  /\ ~IsExc(Denoted(value))
  /\ IsFinite(Denoted(value))
  /\ ~Denoted(value).neg

\* C18: StorageValue(value, unit) with a StorageUnit and an int, a decimal
\* string or a Decimal denoting a finite number >= 0 succeeds, and the
\* stored magnitude is exactly that number.
C18_Constructible ==
  (/\ api_last.op = "StorageValue"
   /\ api_unit \in StorageUnit
   /\ IsExactNonNegative(api_value)) =>
    /\ IsStorageValue(api_last.result)
    /\ api_last.result.unit = api_unit
    /\ api_last.result.decimal_value = Denoted(api_value)

\* StorageValue(5, KIB), StorageValue(Decimal("2.5"), KIB) and
\* StorageValue(Decimal(10^60 + 1), KIB) hold exactly these numbers
C18_ExactValues ==
  /\ api_last.op = "StorageValue"
  /\ api_unit = "KIB"
  /\ api_value \in {PyInt(5), PyDecimal(MkDec(FALSE, <<2, 5>>, -1)),
                     PyDecimal(MkDec(FALSE, <<1>> \o Zeros(prec + 9) \o <<1>>, 0))}
  /\ IsStorageValue(api_last.result)
  /\ api_last.result.decimal_value = api_value.value

\* a value that is negative, not finite, or a str that is neither an exact
\* decimal nor a text of the parser's grammar
IsInvalidValue(value) ==
  CASE value.type \in {"int", "float", "Decimal"} ->
         ~IsFinite(AsDecimal(value)) \/ AsDecimal(value).neg
    [] value.type = "str" ->
         IF IsExc(DecimalOfStr(value.value)) THEN ~MatchesGrammar(value.value)
         ELSE DecimalOfStr(value.value).neg
    [] OTHER -> FALSE

\* C19: StorageValue(value, unit) and Storage(value, unit) with a
\* StorageUnit fail with ValueError whenever the value is negative, is not
\* finite (float or Decimal), or is a str that is no exact decimal.
C19_InvalidValue ==
  (/\ api_last.op \in {"StorageValue", "Storage"}
   /\ api_unit \in StorageUnit
   /\ IsInvalidValue(api_value)) =>
    IsValueError(api_last.result)

\* Storage(-1, BYTES), Storage(float("inf"), BYTES) and Storage("abc", BYTES)
\* raise ValueError
C19_Rejected ==
  /\ api_last.op = "Storage"
  /\ api_unit = "BYTES"
  /\ api_value \in {PyInt(-1), PyFloat(<<"i", "n", "f">>), PyStr(<<"a", "b", "c">>)}
  /\ IsValueError(api_last.result)

\* C20: Storage(value, "invalid_unit") fails with TypeError whatever the
\* value, a number or a text, and Storage(None, unit) fails with TypeError.
C20_UnsupportedType ==
  api_last.op = "Storage" =>
    /\ api_unit = "invalid_unit" => api_last.result = TypeError
    /\ api_value = PyNone => api_last.result = TypeError

\* Storage(5, "invalid_unit") and Storage(None, BYTES) raise TypeError
C20_TypeErrors ==
  /\ api_last.op = "Storage"
  /\ api_last.result = TypeError
  /\ \/ api_value = PyInt(5) /\ api_unit = "invalid_unit"
     \/ api_value = PyNone /\ api_unit = "BYTES"


\* C12: after any sequence of constructions (by constructor or by parsing)
\* and of conversion, add, subtract, multiply, divide, floor-divide and
\* modulo operations, by the engines or by the Storage operators, the
\* object that exists has a magnitude that is a number >= 0 and a unit that
\* is a member of StorageUnit.
C12_ValueInvariant ==
  current # NoResult =>
    /\ ~IsExc(current.decimal_value)
    /\ ~IsNaN(current.decimal_value)
    /\ ~current.decimal_value.neg
    /\ IsStorageUnit(current.unit)

\* a subtraction made the last of MaxOps objects, and it is smaller than
\* the operand subtracted
C12_Witness ==
  /\ current # NoResult
  /\ n_ops = MaxOps
  /\ last_op = "subtract"
  /\ IsFinite(current.decimal_value)
  /\ ~IsZero(current.decimal_value)
  /\ current.unit = "BYTES"


\* C21: for every string input, Storage.parse either raises ValueError or
\* returns a Storage whose value is a finite number >= 0; no other exception
\* escapes and nothing else is returned.
C21_ParseOutcomes ==
  (api_last.op = "Storage.parse" /\ api_last.value.type = "str") =>
    \/ IsValueError(api_last.result)
    \/ /\ IsStorageValue(api_last.result)
       /\ IsFinite(api_last.result.decimal_value)
       /\ ~api_last.result.decimal_value.neg
       /\ IsStorageUnit(api_last.result.unit)

\* Storage.parse("1; rm -rf /") raised ValueError
C21_Hostile ==
  /\ api_last.op = "Storage.parse"
  /\ api_last.value = PyStr(<<"1", ";", " ", "r", "m", " ", "-", "r", "f", " ", "/">>)
  /\ IsValueError(api_last.result)


\* the conversion of the input performed single-threaded, in the thread
\* that imported the library
SingleThreaded ==
  StorageConvertTo(StorageOfNumber(1, PyDecimal(own_input.value), own_input.unit),
                   own_input.target)

\* C22: when several threads each create their own Storage and repeatedly
\* convert it, every call in every thread completes without error and
\* returns the same result as the same conversion performed single-threaded.
C22_IndependentInstances ==
  own_last.thread \in OwnThreads =>
    /\ IsStorageValue(own_last.result)
    /\ own_last.result.unit = SingleThreaded.unit
    /\ own_last.result.decimal_value = SingleThreaded.decimal_value

\* both threads converted their own 1024 BYTES to KIB MaxOwnCalls times,
\* and the last call returned 1 KIB
C22_Converted ==
  /\ own_input = [value |-> DecOfInt(1024), unit |-> "BYTES", target |-> "KIB"]
  /\ \A t \in OwnThreads : own_calls[t] = MaxOwnCalls
  /\ own_last.thread \in OwnThreads
  /\ IsStorageValue(own_last.result)
  /\ own_last.result.decimal_value = DecOfInt(1)
  /\ own_last.result.unit = "KIB"


\* storage.convert_to(unit) on the same Storage, called by the thread of
\* the last access
ConvertedNow ==
  ConvertToIn(prop_storage, prop_memo, prop_last.unit_name,
              prop_prec[prop_last.thread]).result

\* C23: for one Storage and any unit property, every access, however often
\* repeated and from however many threads, returns the same cached Storage,
\* whose value equals convert_to(that unit), and the converter runs at most
\* once per property.
C23_PropertyCache ==
  /\ \A unit_name \in PropertyNames : converter_runs[unit_name] <= 1
  /\ prop_last.thread \in PropThreads =>
       /\ IsStorageValue(prop_last.result)
       /\ prop_last.result = DictGet(first_property, prop_last.unit_name)
       /\ prop_last.result = DictGet(conversion_properties, prop_last.unit_name)
       /\ prop_last.result.unit = prop_last.unit_name
       /\ prop_last.result.decimal_value = ConvertedNow.decimal_value

\* both threads read the same property MaxAccesses times, the converter
\* ran once, and the last access did not return to the thread whose
\* access ran it
C23_Shared ==
  /\ \A t \in PropThreads : prop_accesses[t] = MaxAccesses
  /\ \E unit_name \in PropertyNames :
       /\ unit_name # prop_storage.unit
       /\ converter_runs = [n \in PropertyNames |-> IF n = unit_name THEN 1 ELSE 0]
       /\ prop_last.unit_name = unit_name
       /\ IsStorageValue(prop_last.result)


\* a finite divisor > 0
IsPositiveDivisor(divisor) ==
  /\ IsNumber(divisor)
  /\ IsFinite(AsDecimal(divisor))
  /\ ~IsNonPositive(divisor)

\* x is an integer
IsInteger(x) == IsFinite(x) /\ x.e >= 0

\* q * d + r, unrounded
Recomposed(q, d, r) == ExactSum(ExactProduct(q, d), r)

\* C24: for every magnitude m >= 0 and divisor d > 0, q =
\* floor_divide(d).magnitude is an integer, r = modulo(d).magnitude satisfies
\* 0 <= r < d, and q*d + r = m, with the unit unchanged in both results.
C24_FloorAndRemainder ==
  (/\ ae_last.op \in {"floor_divide", "modulo"}
   /\ IsPositiveDivisor(ae_last.right)
   /\ IsFinite(left_value.decimal_value)) =>
    LET d == AsDecimal(ae_last.right)
        q == FloorDivide(left_value, ae_last.right, 3)
        r == Modulo(left_value, ae_last.right, 3)
    IN /\ IsStorageValue(ae_last.result)
       /\ IsStorageValue(q) /\ IsStorageValue(r)
       /\ q.unit = left_value.unit /\ r.unit = left_value.unit
       /\ IsInteger(q.decimal_value)
       /\ ~r.decimal_value.neg
       /\ DLess(r.decimal_value, d)
       /\ Recomposed(q.decimal_value, d, r.decimal_value) = left_value.decimal_value

\* 512 KIB floor-divided by 3 gave 170 KIB; the remainder is 2 KIB
C24_Quotient ==
  /\ ae_last.op = "floor_divide"
  /\ left_value = StorageValue(1, DecOfInt(512), "KIB")
  /\ ae_last.right = PyInt(3)
  /\ IsStorageValue(ae_last.result)
  /\ ae_last.result.decimal_value = DecOfInt(170)
  /\ Modulo(left_value, ae_last.right, 3).decimal_value = DecOfInt(2)
  /\ ae_last.result.unit = "KIB"


\* the engine operation that corresponds to the Storage operator called
EngineResult ==
  CASE ae_last.op = "Storage.__truediv__" -> Divide(left_value, ae_last.right, 3)
    [] ae_last.op = "Storage.__floordiv__" -> FloorDivide(left_value, ae_last.right, 3)
    [] ae_last.op = "Storage.__mod__" -> Modulo(left_value, ae_last.right, 3)

IsStorageDivision ==
  /\ ae_last.op \in {"Storage.__truediv__", "Storage.__floordiv__", "Storage.__mod__"}
  /\ IsNumber(ae_last.right)
  /\ ~IsNaN(AsDecimal(ae_last.right))

\* C25: the Storage operators /, // and % enforce the divisor policy of
\* ArithmeticEngine.divide, floor_divide and modulo: for every numeric
\* divisor <= 0 each operator fails and returns no Storage, and for every
\* divisor > 0 each returns the magnitude and unit of the engine operation.
C25_SameDivisorPolicy ==
  IsStorageDivision =>
    IF IsNonPositive(ae_last.right) THEN ~IsStorageValue(ae_last.result)
    ELSE IF IsStorageValue(EngineResult)
    THEN /\ IsStorageValue(ae_last.result)
         /\ ae_last.result.decimal_value = EngineResult.decimal_value
         /\ ae_last.result.unit = EngineResult.unit
    ELSE ~IsStorageValue(ae_last.result)

\* Storage(3, KIB) // 2 gave 1 KIB, as floor_divide(2) does
C25_SameQuotient ==
  /\ ae_last.op = "Storage.__floordiv__"
  /\ left_value = StorageValue(1, DecOfInt(3), "KIB")
  /\ ae_last.right = PyInt(2)
  /\ IsStorageValue(ae_last.result)
  /\ ae_last.result.decimal_value = DecOfInt(1)
  /\ ae_last.result.decimal_value = EngineResult.decimal_value
  /\ ae_last.result.unit = "KIB"

(***************************************************************************)
(* Properties of comparison and hashing                                    *)
(***************************************************************************)
BothStorage == IsStorageValue(cmp_left) /\ IsStorageValue(cmp_right)

SameBytes == convert_to_bytes(cmp_left) = convert_to_bytes(cmp_right)

ExactlyOne(a, b, c) == (a /\ ~b /\ ~c) \/ (~a /\ b /\ ~c) \/ (~a /\ ~b /\ c)

\* C26: two Storage values compare equal exactly when their byte-equivalents
\* are equal, exactly one of a < b, a == b, a > b holds, and values that
\* compare equal have equal hashes.
C26_EqualityAndOrder ==
  (cmp_last.op # "none" /\ BothStorage) =>
    /\ StorageEq(cmp_left, cmp_right) <=> SameBytes
    /\ ExactlyOne(StorageLt(cmp_left, cmp_right), StorageEq(cmp_left, cmp_right),
                  StorageGt(cmp_left, cmp_right))
    /\ StorageEq(cmp_left, cmp_right) => StorageHash(cmp_left) = StorageHash(cmp_right)

\* 1 KIB == 1024 BYTES was evaluated and gave True
C26_EqualAcrossUnits ==
  /\ BothStorage
  /\ cmp_left.unit = "KIB" /\ cmp_right.unit = "BYTES"
  /\ cmp_last.op = "__eq__" /\ cmp_last.result = [bool |-> TRUE]
  /\ SameBytes
  /\ StorageHash(cmp_left) = StorageHash(cmp_right)

(***************************************************************************)
(* Properties of optimize_memory_usage and of failed lookups               *)
(***************************************************************************)
\* the step is a call of optimize_memory_usage
IsOptimize == pm_last'.seq = pm_last.seq + 1 /\ pm_last'.op = "optimize_memory_usage"

\* the last n entries of cache, in their order
NewestEntries(cache, n) == SubSeq(cache, Len(cache) - n + 1, Len(cache))

\* C27: optimize_memory_usage on a cache of more than 80% of max_cache_size
\* entries leaves at most int(0.5 * max_cache_size) entries, the most
\* recently inserted ones in their insertion order; on a cache of 80% or less
\* it leaves the cache unchanged; the counters are unchanged in both cases.
C27_OptimizeKeepsNewest ==
  [][IsOptimize =>
       /\ stats' = stats
       /\ IF Len(decimal_cache) * 10 > max_cache_size * 8
          THEN /\ Len(decimal_cache') <= max_cache_size \div 2
               /\ Len(decimal_cache') <= Len(decimal_cache)
               /\ decimal_cache' = NewestEntries(decimal_cache, Len(decimal_cache'))
          ELSE decimal_cache' = decimal_cache]_vars

\* optimize_memory_usage ran on a full cache of capacity 2 and left one entry
C27_Halved ==
  /\ pm_last.op = "optimize_memory_usage"
  /\ max_cache_size = 2 /\ pm_last.size_before = 2
  /\ Len(decimal_cache) = 1
  /\ inserted = Keys(decimal_cache)

\* C30: a get_cached_decimal call that fails leaves the cache entries, their
\* order and the counters as they were, and for a capacity >= 1 a parseable
\* literal returns the value that parsing it directly gives.
C30_FailureLeavesState ==
  [][IsGet =>
       /\ pm_last'.outcome = "raise" => (decimal_cache' = decimal_cache /\ stats' = stats)
       /\ (max_cache_size >= 1 /\ ~IsExc(DecimalOfStr(pm_last'.arg))) =>
            pm_last'.result = DecimalOfStr(pm_last'.arg)]_vars

\* a call on a manager of capacity 0 failed and the cache is still empty
C30_FailedLookup ==
  /\ pm_last.op = "get_cached_decimal" /\ pm_last.outcome = "raise"
  /\ max_cache_size = 0
  /\ decimal_cache = <<>>

(***************************************************************************)
(* Properties of a ConversionEngine shared by threads                      *)
(***************************************************************************)
\* the magnitudes convert_to(target_unit) computes at the precision of one of
\* the threads that use the engine
CorrectMagnitudes(target_unit) ==
  IF race_storage.unit = target_unit THEN {race_storage.decimal_value}
  ELSE {ConvertedIn(race_storage, target_unit, race_prec[t]) : t \in RaceThreads}

\* C28: a convert_to call never fails and returns the correct converted
\* value when it runs concurrently with clear_cache or with other convert_to
\* calls on the same engine.
C28_ConcurrentConvert ==
  race_last.op = "convert_to" =>
    /\ ~IsExc(race_last.result)
    /\ race_last.result.unit = race_last.target_unit
    /\ race_last.result.decimal_value \in CorrectMagnitudes(race_last.target_unit)

\* a convert_to call returned the memoized value while the other thread was
\* inside clear_cache or inside a convert_to for the same target
C28_Overlapped ==
  /\ race_last.op = "convert_to" /\ ~IsExc(race_last.result)
  /\ race_last.result.unit = race_last.target_unit
  /\ race_last.target_unit # race_storage.unit
  /\ race_last.result.decimal_value \in CorrectMagnitudes(race_last.target_unit)
  /\ \E t \in RaceThreads \ {race_last.thread} :
       \/ race_pc[t] \in {"clear_lock", "clear", "clear_unlock"}
       \/ race_pc[t] # "idle" /\ race_target[t] = race_last.target_unit

(***************************************************************************)
(* The conversion memo of an engine that several threads use               *)
(***************************************************************************)
\* the memo entry en belongs to target_unit and holds what thread t computes
\* afresh (source.to_bytes() / target multiplier) for the bound value
FreshEntry(en, target_unit, t) ==
  /\ en.key = CacheKey(race_storage.unit, target_unit)
  /\ en.value.unit = target_unit
  /\ en.value.decimal_value = ConvertedIn(race_storage, target_unit, race_prec[t])

\* C29: every memo entry has a key '<source unit>_to_<target unit>' with a
\* target other than the source unit, its value carries the target unit and
\* its magnitude is what a fresh computation for the bound value gives; the
\* memo holds at most (number of units - 1) entries.
C29_MemoInvariant ==
  /\ \A i \in 1..Len(race_cache) :
       \E target_unit \in StorageUnit \ {race_storage.unit} :
         \A t \in RaceThreads : FreshEntry(race_cache[i], target_unit, t)
  /\ Len(race_cache) <= Cardinality(StorageUnit) - 1

\* the memo holds an entry for every other target of the model, all fresh,
\* and the last call returned one of them
C29_MemoFilled ==
  /\ Len(race_cache) = Cardinality(RaceTargets) - 1
  /\ \A i \in 1..Len(race_cache) :
       \E target_unit \in RaceTargets \ {race_storage.unit} :
         \A t \in RaceThreads : FreshEntry(race_cache[i], target_unit, t)
  /\ race_last.op = "convert_to"
  /\ \E i \in 1..Len(race_cache) : race_cache[i].value = race_last.result

====
